---- MODULE Spec2Model ----
(***************************************************************************)
(* Content scoring, publish scheduling and A/B test tracking of the        *)
(* football-news pipeline (src/ai_writer/content_scorer.py,                *)
(* src/ai_writer/content_scheduler.py, src/ai_writer/ab_testing.py), and   *)
(* the backend's scraping cycle and article generation                     *)
(* (src/backend/app/core/scraping_scheduler.py,                            *)
(* src/backend/app/services/ai_usage_tracker.py and ai_writer.py).         *)
(*                                                                         *)
(* Scores are kept in tenths (7.0 is 70): every score the scorer produces  *)
(* is round(x, 1), a whole number of tenths.  The wall clock               *)
(* (datetime.now()) is the variable now, counted in clock readings; two    *)
(* calls made before the clock's reading changes see the same value.       *)
(***************************************************************************)
EXTENDS Integers, Sequences, FiniteSets, TLC

VARIABLES
    max_daily_articles, \* ContentScorer.max_daily_articles
    max_daily_social,   \* ContentScorer.max_daily_social
    daily_stats,        \* ContentScheduler.daily_stats
    queue,              \* ContentScheduler.queue: the three heaps of PublishQueue
    now,                \* the wall clock read by datetime.now()
    nextId,             \* the content payload the next schedule_content call carries
    acceptedToday,      \* items accepted on the current calendar day, per publish type
    op,                 \* the operation called last
    args,               \* the arguments of the operation called last
    result,             \* what the operation called last returned
    active_tests,       \* ABTestManager.active_tests
    completed_tests,    \* ABTestManager.completed_tests
    test_history,       \* ABTestManager.test_history
    calls,              \* the calls two workers have in progress, each worker's position
    usage,              \* AIUsageTracker: the contents of data/ai_usage.json
    cache,              \* AIUsageTracker: the contents of data/ai_cache.json
    tracker             \* AIUsageTracker: max_daily_articles and max_monthly_cost

vars == <<max_daily_articles, max_daily_social, daily_stats, queue, now, nextId,
          acceptedToday, op, args, result, active_tests, completed_tests, test_history,
          calls, usage, cache, tracker>>

schedVars == <<max_daily_articles, max_daily_social, daily_stats, queue, now,
               nextId, acceptedToday>>

abVars == <<active_tests, completed_tests, test_history>>

restVars == <<calls, usage, cache, tracker>>

(***************************************************************************)
(* Bounds of the model.                                                    *)
(***************************************************************************)
\* the caps a ContentScheduler is constructed with range over 0..MaxCap
MaxCap == 2
\* schedule_content calls in one behaviour of Spec
MaxItems == 3
\* the last reading of the wall clock
MaxNow == 2
\* impressions the tests of an ABTestManager hold together in SpecManager
MaxSamples == 4
\* tests created in one behaviour of SpecManager
MaxTests == 2
\* clock readings per calendar day
TicksPerDay == 2

(***************************************************************************)
(* content_scorer.py                                                       *)
(***************************************************************************)
ContentType == {"match_result", "transfer_news", "tactical_analysis",
                "team_update", "rumor"}

PublishType == {"full_article", "summary", "social", "discard"}

TimeSlot == {"morning", "afternoon", "evening"}

\* ContentScorer.news_importance_scores
news_importance_scores(content_type) ==
    CASE content_type = "match_result" -> 10
      [] content_type = "transfer_news" -> 8
      [] content_type = "tactical_analysis" -> 6
      [] content_type = "team_update" -> 4
      [] content_type = "rumor" -> 2

\* mutant: the high tier starts above 10000 instead of at 10000
get_engagement_score_strict(engagement_count) ==
    IF engagement_count > 10000 THEN 10
    ELSE IF engagement_count >= 1000 THEN 6
    ELSE 2

get_engagement_score(engagement_count) ==
    IF engagement_count >= 10000 THEN 10
    ELSE IF engagement_count >= 1000 THEN 6
    ELSE 2

get_trend_score(is_trending, has_engagement) ==
    IF is_trending THEN 10
    ELSE IF has_engagement THEN 6
    ELSE 2

\* round(x, 1) of a value given in hundredths, in tenths: to the nearest
\* tenth, a half to the even tenth
round1(hundredths) ==
    LET q == hundredths \div 10
        r == hundredths % 10
    IN  IF r < 5 THEN q
        ELSE IF r > 5 THEN q + 1
        ELSE IF q % 2 = 0 THEN q ELSE q + 1

\* the score in tenths; the weights 0.5, 0.3, 0.2 applied in hundredths
calculate_content_score(content_type, engagement_count, is_trending, has_engagement) ==
    LET news_score == news_importance_scores(content_type)
        engagement_score == get_engagement_score(engagement_count)
        trend_score == get_trend_score(is_trending, has_engagement)
        final_score == news_score * 50 + engagement_score * 30 + trend_score * 20
    IN  round1(final_score)

\* mutant: the lower bound of each band is exclusive
determine_publish_type_exclusive(score) ==
    IF score > 80 THEN "full_article"
    ELSE IF score > 60 THEN "summary"
    ELSE IF score > 40 THEN "social"
    ELSE "discard"

determine_publish_type(score) ==
    IF score >= 80 THEN "full_article"
    ELSE IF score >= 60 THEN "summary"
    ELSE IF score >= 40 THEN "social"
    ELSE "discard"

get_optimal_time_slot(content_type) ==
    CASE content_type = "tactical_analysis" -> "morning"
      [] content_type = "transfer_news" -> "morning"
      [] content_type = "team_update" -> "afternoon"
      [] content_type = "match_result" -> "evening"
      [] content_type = "rumor" -> "afternoon"
      [] OTHER -> "afternoon"

\* time_ranges: the slot's start and end as <<hour, minute>>
time_ranges(time_slot) ==
    CASE time_slot = "morning" -> <<[hour |-> 8, minute |-> 0], [hour |-> 12, minute |-> 0]>>
      [] time_slot = "afternoon" -> <<[hour |-> 12, minute |-> 0], [hour |-> 18, minute |-> 0]>>
      [] time_slot = "evening" -> <<[hour |-> 18, minute |-> 0], [hour |-> 23, minute |-> 59]>>

\* mutant: the midpoint is rounded up instead of truncated
get_publish_time_rounded(time_slot) ==
    LET start == time_ranges(time_slot)[1]
        end == time_ranges(time_slot)[2]
    IN  [hour |-> (start.hour + end.hour + 1) \div 2, minute |-> 0]

get_publish_time(time_slot) ==
    LET start == time_ranges(time_slot)[1]
        end == time_ranges(time_slot)[2]
    IN  [hour |-> (start.hour + end.hour) \div 2, minute |-> 0]

\* time.strftime("%H:%M"): the four digits of HH:MM
strftime(t) == <<t.hour \div 10, t.hour % 10, t.minute \div 10, t.minute % 10>>

\* datetime.strptime(s, "%H:%M").time()
strptime(s) == [hour |-> s[1] * 10 + s[2], minute |-> s[3] * 10 + s[4]]

evaluate_content(content_type, engagement_count, is_trending, has_engagement) ==
    LET score == calculate_content_score(content_type, engagement_count,
                                         is_trending, has_engagement)
        publish_type == determine_publish_type(score)
        time_slot == get_optimal_time_slot(content_type)
        publish_time == get_publish_time(time_slot)
    IN  [score |-> score,
         publish_type |-> publish_type,
         time_slot |-> time_slot,
         publish_time |-> strftime(publish_time),
         recommendation |->
            [should_publish |-> publish_type # "discard",
             format |-> publish_type,
             priority |-> IF score >= 80 THEN "high"
                          ELSE IF score >= 60 THEN "medium" ELSE "low"]]

(***************************************************************************)
(* content_scheduler.py: ContentItem and PublishQueue                      *)
(***************************************************************************)
\* ContentItem.__init__: created_at is the clock's reading at construction
ContentItem(content, score, publish_time, publish_type, created_at) ==
    [content |-> content, score |-> score, publish_time |-> publish_time,
     publish_type |-> publish_type, created_at |-> created_at]

\* ContentItem.__lt__
Lt(self, other) ==
    IF self.score = other.score
    THEN self.created_at < other.created_at
    ELSE self.score > other.score

\* heapq._siftdown(heap, startpos, pos) with newitem carried along;
\* positions are heapq's (from 0), heap[pos + 1] is heapq's heap[pos]
RECURSIVE siftdown(_, _, _, _)
siftdown(heap, startpos, pos, newitem) ==
    IF pos > startpos
    THEN LET parentpos == (pos - 1) \div 2
             parent == heap[parentpos + 1]
         IN  IF Lt(newitem, parent)
             THEN siftdown([heap EXCEPT ![pos + 1] = parent], startpos, parentpos, newitem)
             ELSE [heap EXCEPT ![pos + 1] = newitem]
    ELSE [heap EXCEPT ![pos + 1] = newitem]

\* the descent of heapq._siftup: the smaller child moves up until a leaf
RECURSIVE siftup_descend(_, _, _, _)
siftup_descend(heap, startpos, pos, newitem) ==
    LET endpos == Len(heap)
        childpos == 2 * pos + 1
        rightpos == childpos + 1
    IN  IF childpos < endpos
        THEN LET c == IF rightpos < endpos /\ ~Lt(heap[childpos + 1], heap[rightpos + 1])
                      THEN rightpos ELSE childpos
             IN  siftup_descend([heap EXCEPT ![pos + 1] = heap[c + 1]], startpos, c, newitem)
        ELSE siftdown([heap EXCEPT ![pos + 1] = newitem], startpos, pos, newitem)

\* heapq.heappush(heap, item)
heappush(heap, item) ==
    siftdown(Append(heap, item), 0, Len(heap), item)

\* heapq.heappop(heap): <<the item returned, the heap left>>, heap not empty
heappop(heap) ==
    LET lastelt == heap[Len(heap)]
        rest == SubSeq(heap, 1, Len(heap) - 1)
    IN  IF rest # <<>>
        THEN <<heap[1], siftup_descend([rest EXCEPT ![1] = lastelt], 0, 0, lastelt)>>
        ELSE <<lastelt, rest>>

\* PublishQueue.add_content
add_content(q, item) ==
    IF item.publish_type = "full_article"
    THEN [q EXCEPT !.articles = heappush(@, item)]
    ELSE IF item.publish_type = "summary"
    THEN [q EXCEPT !.summaries = heappush(@, item)]
    ELSE IF item.publish_type = "social"
    THEN [q EXCEPT !.social = heappush(@, item)]
    ELSE q

(***************************************************************************)
(* content_scheduler.py: ContentScheduler                                  *)
(***************************************************************************)
\* datetime.now().date()
Today == now \div TicksPerDay

\* mutant: the stored date is never compared, the counters are never reset
reset_daily_stats_never(stats, today) == stats

\* mutant: the counters are reset on every call
reset_daily_stats_always(stats, today) ==
    [articles |-> 0, summaries |-> 0, social |-> 0, date |-> today]

\* ContentScheduler.reset_daily_stats: the daily_stats it leaves
reset_daily_stats(stats, today) ==
    IF stats.date # today
    THEN [articles |-> 0, summaries |-> 0, social |-> 0, date |-> today]
    ELSE stats

\* mutant: the cap itself is still accepted
can_publish_more_inclusive(stats, publish_type) ==
    IF publish_type = "full_article" THEN stats.articles <= max_daily_articles
    ELSE IF publish_type = "summary" THEN stats.summaries <= max_daily_articles
    ELSE IF publish_type = "social" THEN stats.social <= max_daily_social
    ELSE FALSE

\* mutant: a type without a quota entry is let through
can_publish_more_default_true(stats, publish_type) ==
    IF publish_type = "full_article" THEN stats.articles < max_daily_articles
    ELSE IF publish_type = "summary" THEN stats.summaries < max_daily_articles
    ELSE IF publish_type = "social" THEN stats.social < max_daily_social
    ELSE TRUE

\* ContentScheduler.can_publish_more on the daily_stats the reset left
can_publish_more(stats, publish_type) ==
    IF publish_type = "full_article" THEN stats.articles < max_daily_articles
    ELSE IF publish_type = "summary" THEN stats.summaries < max_daily_articles
    ELSE IF publish_type = "social" THEN stats.social < max_daily_social
    ELSE FALSE

\* schedule_content, "Update daily stats"
update_daily_stats(stats, publish_type) ==
    IF publish_type = "full_article" THEN [stats EXCEPT !.articles = @ + 1]
    ELSE IF publish_type = "summary" THEN [stats EXCEPT !.summaries = @ + 1]
    ELSE IF publish_type = "social" THEN [stats EXCEPT !.social = @ + 1]
    ELSE stats

\* ContentScheduler.schedule_content
schedule_content(content, content_type, engagement_count, is_trending, has_engagement) ==
    LET evaluation == evaluate_content(content_type, engagement_count,
                                       is_trending, has_engagement)
        publish_type == evaluation.publish_type
        stats == reset_daily_stats(daily_stats, Today)
        publish_time == strptime(evaluation.publish_time)
        content_item == ContentItem(content, evaluation.score, publish_time,
                                    publish_type, now)
    IN  /\ nextId' = nextId + 1
        /\ op' = "schedule_content"
        /\ args' = <<content_type, engagement_count, is_trending, has_engagement>>
        /\ IF ~can_publish_more(stats, publish_type)
           THEN /\ daily_stats' = stats
                /\ queue' = queue
                /\ acceptedToday' = acceptedToday
                /\ result' = [scheduled |-> FALSE,
                              reason |-> "Daily limit reached for this content type",
                              evaluation |-> evaluation]
           ELSE /\ queue' = add_content(queue, content_item)
                /\ daily_stats' = update_daily_stats(stats, publish_type)
                /\ acceptedToday' = [acceptedToday EXCEPT ![publish_type] = @ + 1]
                /\ result' = [scheduled |-> TRUE,
                              publish_time |-> strftime(publish_time),
                              content_type |-> content_type,
                              publish_type |-> publish_type,
                              score |-> evaluation.score,
                              priority |-> evaluation.recommendation.priority]
        /\ UNCHANGED <<max_daily_articles, max_daily_social, now>>
        /\ UNCHANGED abVars
        /\ UNCHANGED restVars

\* one entry of a bucket of the schedule
ScheduleEntry(item) ==
    [time |-> strftime(item.publish_time), score |-> item.score,
     content |-> item.content]

\* mutant: the loop stops after the first item popped
drain_first_only(heap) ==
    IF heap = <<>> THEN <<>> ELSE <<ScheduleEntry(heappop(heap)[1])>>

\* the loop of get_publishing_schedule over one queue: pops until the
\* queue is empty; the entries in the order popped
RECURSIVE drain(_)
drain(heap) ==
    IF heap = <<>> THEN <<>>
    ELSE LET p == heappop(heap)
         IN  <<ScheduleEntry(p[1])>> \o drain(p[2])

\* mutant: the queue is read, never popped
after_drain_peek(heap) == heap

\* the queue the loop of get_publishing_schedule leaves
RECURSIVE after_drain(_)
after_drain(heap) ==
    IF heap = <<>> THEN heap ELSE after_drain(heappop(heap)[2])

\* mutant: reading the schedule gives the day's quota back
get_publishing_schedule_refund ==
    /\ op' = "get_publishing_schedule"
    /\ args' = <<>>
    /\ result' = [articles |-> drain(queue.articles),
                  summaries |-> drain(queue.summaries),
                  social |-> drain(queue.social)]
    /\ queue' = [articles |-> after_drain(queue.articles),
                 summaries |-> after_drain(queue.summaries),
                 social |-> after_drain(queue.social)]
    /\ daily_stats' = [daily_stats EXCEPT !.articles = 0, !.summaries = 0,
                                          !.social = 0]
    /\ UNCHANGED <<max_daily_articles, max_daily_social, now, nextId, acceptedToday>>
    /\ UNCHANGED abVars
    /\ UNCHANGED restVars

\* ContentScheduler.get_publishing_schedule
get_publishing_schedule ==
    /\ op' = "get_publishing_schedule"
    /\ args' = <<>>
    /\ result' = [articles |-> drain(queue.articles),
                  summaries |-> drain(queue.summaries),
                  social |-> drain(queue.social)]
    /\ queue' = [articles |-> after_drain(queue.articles),
                 summaries |-> after_drain(queue.summaries),
                 social |-> after_drain(queue.social)]
    /\ UNCHANGED <<max_daily_articles, max_daily_social, daily_stats, now,
                   nextId, acceptedToday>>
    /\ UNCHANGED abVars
    /\ UNCHANGED restVars

\* ContentScheduler.get_daily_stats; the date is reported as the day's number
get_daily_stats ==
    LET stats == reset_daily_stats(daily_stats, Today)
    IN  /\ op' = "get_daily_stats"
        /\ args' = <<>>
        /\ daily_stats' = stats
        /\ result' = [date |-> stats.date,
                      articles_published |-> stats.articles,
                      articles_remaining |-> max_daily_articles - stats.articles,
                      summaries_published |-> stats.summaries,
                      summaries_remaining |-> max_daily_articles - stats.summaries,
                      social_published |-> stats.social,
                      social_remaining |-> max_daily_social - stats.social]
        /\ UNCHANGED <<max_daily_articles, max_daily_social, queue, now,
                       nextId, acceptedToday>>
        /\ UNCHANGED abVars
        /\ UNCHANGED restVars

NoneAccepted == [t \in PublishType \ {"discard"} |-> 0]

\* the wall clock moves to its next reading; a new calendar day starts
\* every TicksPerDay readings
Tick ==
    /\ now < MaxNow
    /\ now' = now + 1
    /\ acceptedToday' = IF (now + 1) \div TicksPerDay # Today
                        THEN NoneAccepted ELSE acceptedToday
    /\ UNCHANGED <<max_daily_articles, max_daily_social, daily_stats, queue,
                   nextId, op, args, result>>
    /\ UNCHANGED abVars
    /\ UNCHANGED restVars

(***************************************************************************)
(* ab_testing.py: ABTest                                                   *)
(*                                                                         *)
(* Rates are kept as exact fractions [num, den].  start_time and the       *)
(* duration get_stats derives from it are left out: nothing reads them.    *)
(***************************************************************************)
\* Python's None
None == "None"

\* the elements of a list
Range(seq) == {seq[k] : k \in 1..Len(seq)}

\* ABTest.__init__
ABTest(name, variants, min_samples) ==
    [name |-> name,
     variants |-> variants,
     min_samples |-> min_samples,
     results |-> [v \in Range(variants) |->
                    [impressions |-> 0, clicks |-> 0, shares |-> 0, comments |-> 0,
                     avg_time_spent |-> [num |-> 0, den |-> 1],
                     total_time_spent |-> 0]]]

\* mutant: a variant the test does not have gets accumulators of its own
add_result_any_variant(test, variant, metrics) ==
    [test EXCEPT !.results =
        [v \in DOMAIN test.results \cup {variant} |->
            IF v = variant
            THEN LET impressions == (IF v \in DOMAIN test.results
                                     THEN test.results[v].impressions ELSE 0) + 1
                     total_time == (IF v \in DOMAIN test.results
                                    THEN test.results[v].total_time_spent ELSE 0)
                                   + metrics.time_spent
                 IN  [impressions |-> impressions,
                      clicks |-> (IF v \in DOMAIN test.results
                                  THEN test.results[v].clicks ELSE 0) + metrics.clicks,
                      shares |-> (IF v \in DOMAIN test.results
                                  THEN test.results[v].shares ELSE 0) + metrics.shares,
                      comments |-> (IF v \in DOMAIN test.results
                                    THEN test.results[v].comments ELSE 0)
                                   + metrics.comments,
                      avg_time_spent |-> [num |-> total_time, den |-> impressions],
                      total_time_spent |-> total_time]
            ELSE test.results[v]]]

\* mutant: the average is taken over the impressions before the increment
add_result_divide_first(test, variant, metrics) ==
    IF variant \notin DOMAIN test.results
    THEN test
    ELSE LET old == test.results[variant]
             total_time == old.total_time_spent + metrics.time_spent
         IN  [test EXCEPT !.results[variant] =
                [impressions |-> old.impressions + 1,
                 clicks |-> old.clicks + metrics.clicks,
                 shares |-> old.shares + metrics.shares,
                 comments |-> old.comments + metrics.comments,
                 avg_time_spent |-> [num |-> total_time, den |-> old.impressions],
                 total_time_spent |-> total_time]]

\* ABTest.add_result: the test it leaves
add_result(test, variant, metrics) ==
    IF variant \notin DOMAIN test.results
    THEN test
    ELSE LET old == test.results[variant]
             impressions == old.impressions + 1
             total_time == old.total_time_spent + metrics.time_spent
         IN  [test EXCEPT !.results[variant] =
                [impressions |-> impressions,
                 clicks |-> old.clicks + metrics.clicks,
                 shares |-> old.shares + metrics.shares,
                 comments |-> old.comments + metrics.comments,
                 avg_time_spent |-> [num |-> total_time, den |-> impressions],
                 total_time_spent |-> total_time]]

\* sum(v["impressions"] for v in self.results.values())
RECURSIVE SumImpressions(_, _)
SumImpressions(results, names) ==
    IF names = {} THEN 0
    ELSE LET v == CHOOSE x \in names : TRUE
         IN  results[v].impressions + SumImpressions(results, names \ {v})

total_samples(test) == SumImpressions(test.results, DOMAIN test.results)

\* get_stats, "Calculate metrics for each variant": stats_data["variants"]
variants_data(test) ==
    [v \in {x \in DOMAIN test.results : test.results[x].impressions # 0} |->
        LET data == test.results[v]
        IN  [impressions |-> data.impressions,
             ctr |-> [num |-> data.clicks, den |-> data.impressions],
             engagement_rate |-> [num |-> data.shares + data.comments,
                                  den |-> data.impressions],
             avg_time_spent |-> data.avg_time_spent]]

\* the composite score ctr*0.4 + engagement_rate*0.4 + (avg_time_spent/300)*0.2
\* as a fraction: 1500 times the score, over one denominator.  The code
\* computes it in floating point; for the accumulators Metrics can build up
\* the floating-point scores compare as the exact ones do
composite_score(data) ==
    [num |-> 600 * data.ctr.num * data.engagement_rate.den * data.avg_time_spent.den
             + 600 * data.engagement_rate.num * data.ctr.den * data.avg_time_spent.den
             + data.avg_time_spent.num * data.ctr.den * data.engagement_rate.den,
     den |-> data.ctr.den * data.engagement_rate.den * data.avg_time_spent.den]

\* mutant: score >= best_score, a later variant of equal score takes over
FracGreater_or_equal(a, b) == a.num * b.den >= b.num * a.den

\* score > best_score on fractions with positive denominators
FracGreater(a, b) == a.num * b.den > b.num * a.den

\* get_stats, "Find winner": the loop over stats_data["variants"], which
\* iterates in the order of self.variants; best is <<best_variant, best_score>>
RECURSIVE find_winner(_, _, _, _)
find_winner(variants, data, k, best) ==
    IF k > Len(variants) THEN best
    ELSE IF variants[k] \in DOMAIN data
            /\ variants[k] \notin {variants[j] : j \in 1..(k - 1)}
            /\ FracGreater(composite_score(data[variants[k]]), best[2])
         THEN find_winner(variants, data, k + 1,
                          <<variants[k], composite_score(data[variants[k]])>>)
         ELSE find_winner(variants, data, k + 1, best)

\* scipy.stats.chi2_contingency on [[a, b], [c, d]]: a ValueError for a
\* negative entry or a zero expected frequency (a zero row or column sum),
\* else a p-value, of which only its being computed is kept
chi2_contingency(a, b, c, d) ==
    IF a < 0 \/ b < 0 \/ c < 0 \/ d < 0 THEN "ValueError"
    ELSE IF a + b = 0 \/ c + d = 0 \/ a + c = 0 \/ b + d = 0 THEN "ValueError"
    ELSE "computed"

\* mutant: the return after "collecting_data" is missing
get_stats_no_return(test) ==
    LET data == variants_data(test)
        best_variant == find_winner(test.variants, data, 1,
                                    <<None, [num |-> -1, den |-> 1]>>)[1]
    IN  [test_name |-> test.name, total_samples |-> total_samples(test),
         variants |-> data,
         winner |-> IF Cardinality(DOMAIN data) > 1 THEN best_variant ELSE None,
         confidence |-> IF Cardinality(DOMAIN data) > 1 THEN "computed" ELSE None,
         status |-> IF Cardinality(DOMAIN data) > 1 THEN "completed"
                    ELSE "collecting_data"]

\* ABTest.get_stats: the dict returned, or [raised |-> the exception]
get_stats(test) ==
    LET data == variants_data(test)
        total == total_samples(test)
        stats_data == [test_name |-> test.name, total_samples |-> total,
                       variants |-> data, winner |-> None, confidence |-> None,
                       status |-> None]
        best_variant == find_winner(test.variants, data, 1,
                                    <<None, [num |-> -1, den |-> 1]>>)[1]
    IN  IF total < test.min_samples
        THEN [stats_data EXCEPT !.status = "collecting_data"]
        ELSE IF best_variant # None /\ Cardinality(DOMAIN data) > 1
        THEN IF test.variants[1] \notin DOMAIN data
             THEN [raised |-> "KeyError"]
             ELSE LET control_data == data[test.variants[1]]
                      test_data == data[best_variant]
                      \* impressions * engagement_rate
                      control_engaged == (control_data.impressions
                                          * control_data.engagement_rate.num)
                                         \div control_data.engagement_rate.den
                      test_engaged == (test_data.impressions
                                       * test_data.engagement_rate.num)
                                      \div test_data.engagement_rate.den
                      p_value == chi2_contingency(
                                    control_engaged,
                                    control_data.impressions - control_engaged,
                                    test_engaged,
                                    test_data.impressions - test_engaged)
                  IN  IF p_value = "ValueError"
                      THEN [raised |-> "ValueError"]
                      ELSE [stats_data EXCEPT !.winner = best_variant,
                                              !.confidence = p_value,
                                              !.status = "completed"]
        ELSE stats_data

(***************************************************************************)
(* ab_testing.py: ABTestManager                                            *)
(***************************************************************************)
\* a dict without its key name
DictWithout(dict, name) == [n \in DOMAIN dict \ {name} |-> dict[n]]

\* a dict with dict[name] = value
DictWith(dict, name, value) ==
    [n \in DOMAIN dict \cup {name} |-> IF n = name THEN value ELSE dict[n]]

\* mutant: a test of that name being active is not looked for
create_test_overwrite(name, variants, min_samples) ==
    /\ op' = "create_test"
    /\ args' = <<name, variants, min_samples>>
    /\ active_tests' = DictWith(active_tests, name, ABTest(name, variants, min_samples))
    /\ result' = [status |-> "created", test_name |-> name,
                  variants |-> variants, min_samples |-> min_samples]
    /\ UNCHANGED <<completed_tests, test_history>>
    /\ UNCHANGED schedVars
    /\ UNCHANGED restVars

\* ABTestManager.create_test
create_test(name, variants, min_samples) ==
    /\ op' = "create_test"
    /\ args' = <<name, variants, min_samples>>
    /\ IF name \in DOMAIN active_tests
       THEN /\ result' = [error |-> "Test already exists"]
            /\ UNCHANGED abVars
       ELSE /\ active_tests' = DictWith(active_tests, name,
                                        ABTest(name, variants, min_samples))
            /\ result' = [status |-> "created", test_name |-> name,
                          variants |-> variants, min_samples |-> min_samples]
            /\ UNCHANGED <<completed_tests, test_history>>
    /\ UNCHANGED schedVars
    /\ UNCHANGED restVars

\* ABTestManager.record_result; an exception of get_stats leaves the call
\* after add_result has updated the test
record_result(test_name, variant, metrics) ==
    /\ op' = "record_result"
    /\ args' = <<test_name, variant>>
    /\ IF test_name \notin DOMAIN active_tests
       THEN /\ result' = [error |-> "Test not found"]
            /\ UNCHANGED abVars
       ELSE \E test \in {add_result(active_tests[test_name], variant, metrics)} :
            \E stats \in {get_stats(test)} :
                IF "raised" \in DOMAIN stats
                THEN /\ active_tests' = DictWith(active_tests, test_name, test)
                     /\ result' = stats
                     /\ UNCHANGED <<completed_tests, test_history>>
                ELSE IF stats.status = "completed"
                THEN /\ completed_tests' = DictWith(completed_tests, test_name, test)
                     /\ active_tests' = DictWithout(active_tests, test_name)
                     /\ test_history' = Append(test_history, stats)
                     /\ result' = [status |-> "recorded", test_stats |-> stats]
                ELSE /\ active_tests' = DictWith(active_tests, test_name, test)
                     /\ result' = [status |-> "recorded", test_stats |-> stats]
                     /\ UNCHANGED <<completed_tests, test_history>>
    /\ UNCHANGED schedVars
    /\ UNCHANGED restVars

\* ABTestManager.get_test_stats
get_test_stats(test_name) ==
    /\ op' = "get_test_stats"
    /\ args' = <<test_name>>
    /\ result' = IF test_name \in DOMAIN active_tests
                 THEN get_stats(active_tests[test_name])
                 ELSE IF test_name \in DOMAIN completed_tests
                 THEN get_stats(completed_tests[test_name])
                 ELSE [none |-> None]
    /\ UNCHANGED abVars
    /\ UNCHANGED schedVars
    /\ UNCHANGED restVars

\* ABTestManager.select_variant: random.choice is any of the variants
select_variant(test_name) ==
    /\ op' = "select_variant"
    /\ args' = <<test_name>>
    /\ IF test_name \notin DOMAIN active_tests
       THEN result' = [none |-> None]
       ELSE \E k \in 1..Len(active_tests[test_name].variants) :
                result' = [variant |-> active_tests[test_name].variants[k]]
    /\ UNCHANGED abVars
    /\ UNCHANGED schedVars
    /\ UNCHANGED restVars

(***************************************************************************)
(* The scheduler driven by its callers.                                    *)
(***************************************************************************)
\* engagement counts on and around the tiers' thresholds
EngagementCounts == {0, 999, 1000, 1500, 9999, 10000, 15000}

\* the calls Spec makes: one per publish type, two scores in the
\* FULL_ARTICLE band, and the end-to-end example of the specification
ScheduleInputs ==
    { <<"match_result", 15000, TRUE, TRUE>>,     \* 10.0 full_article
      <<"match_result", 1000, FALSE, TRUE>>,     \*  8.0 full_article
      <<"transfer_news", 1500, FALSE, TRUE>>,    \*  7.0 summary
      <<"team_update", 1000, FALSE, TRUE>>,      \*  5.0 social
      <<"rumor", 0, FALSE, FALSE>> }             \*  2.0 discard

AllInputs == ContentType \X EngagementCounts \X BOOLEAN \X BOOLEAN

EmptyQueue == [articles |-> <<>>, summaries |-> <<>>, social |-> <<>>]

\* ABTestManager.__init__
EmptyDict == [n \in {} |-> None]

\* the two workers that call into one scheduler or one manager
Workers == {1, 2}

\* a worker that has no call in progress
Idle == [pc |-> "idle"]

\* AIUsageTracker._ensure_data_files: the usage file written on a first run
EmptyUsage ==
    [daily_articles |-> [d \in {} |-> 0],
     monthly_costs |-> [m \in {} |-> 0],
     total_tokens |-> 0,
     total_cost |-> 0]

\* no call in progress, the data files of a first run and the limits of
\* AIUsageTracker.__init__'s defaults: 10 articles a day, 100.0 dollars a
\* month (costs are kept in millionths of a dollar)
InitRest ==
    /\ calls = [w \in Workers |-> Idle]
    /\ usage = EmptyUsage
    /\ cache = EmptyDict
    /\ tracker = [max_daily_articles |-> 10, max_monthly_cost |-> 100000000]

InitAB ==
    /\ active_tests = EmptyDict
    /\ completed_tests = EmptyDict
    /\ test_history = <<>>

\* ContentScheduler.__init__
Init ==
    /\ max_daily_articles \in 0..MaxCap
    /\ max_daily_social \in 0..MaxCap
    /\ now = 0
    /\ daily_stats = [articles |-> 0, summaries |-> 0, social |-> 0, date |-> 0]
    /\ queue = EmptyQueue
    /\ nextId = 1
    /\ acceptedToday = NoneAccepted
    /\ op = "init"
    /\ args = <<>>
    /\ result = <<>>
    /\ InitAB
    /\ InitRest

ScheduleContent ==
    \E i \in ScheduleInputs :
        /\ nextId <= MaxItems
        /\ schedule_content(nextId, i[1], i[2], i[3], i[4])

GetPublishingSchedule == get_publishing_schedule

GetDailyStats == get_daily_stats

Next ==
    \/ ScheduleContent
    \/ GetPublishingSchedule
    \/ GetDailyStats
    \/ Tick

Spec == Init /\ [][Next]_vars

\* a scheduler that has accepted some items today and whose schedule was
\* read since: any counters within the caps, empty queues
InitEval ==
    /\ max_daily_articles \in 0..MaxCap
    /\ max_daily_social \in 0..MaxCap
    /\ now = 0
    /\ \E a, s \in 0..max_daily_articles, x \in 0..max_daily_social :
          /\ daily_stats = [articles |-> a, summaries |-> s, social |-> x, date |-> 0]
          /\ acceptedToday = [t \in PublishType \ {"discard"} |->
                                IF t = "full_article" THEN a
                                ELSE IF t = "summary" THEN s ELSE x]
    /\ queue = EmptyQueue
    /\ nextId = 1
    /\ op = "get_publishing_schedule"
    /\ args = <<>>
    /\ result = EmptyQueue
    /\ InitAB
    /\ InitRest

\* one schedule_content call with any input
ScheduleAnyContent ==
    \E i \in AllInputs :
        /\ nextId <= 1
        /\ schedule_content(nextId, i[1], i[2], i[3], i[4])

NextEval ==
    \/ ScheduleAnyContent
    \/ GetPublishingSchedule
    \/ GetDailyStats
    \/ Tick

SpecEval == InitEval /\ [][NextEval]_vars

(***************************************************************************)
(* The scheduler under a wall clock that is also set back.  datetime.now() *)
(* is the local wall clock: an adjustment of the system time moves it to   *)
(* an earlier reading.                                                     *)
(***************************************************************************)
\* ContentScheduler.can_publish_more called by the scheduler's user
CanPublishMore ==
    \E publish_type \in PublishType :
        \E stats \in {reset_daily_stats(daily_stats, Today)} :
            /\ op' = "can_publish_more"
            /\ args' = <<publish_type>>
            /\ daily_stats' = stats
            /\ result' = can_publish_more(stats, publish_type)
            /\ UNCHANGED <<max_daily_articles, max_daily_social, queue, now,
                           nextId, acceptedToday>>
            /\ UNCHANGED abVars
            /\ UNCHANGED restVars

\* the calls made under the adjustable clock: a FULL_ARTICLE and a SOCIAL item
ClockInputs ==
    { <<"match_result", 1000, FALSE, TRUE>>,     \*  8.0 full_article
      <<"team_update", 1000, FALSE, TRUE>> }     \*  5.0 social

ScheduleOnClock ==
    \E i \in ClockInputs :
        /\ nextId <= MaxItems
        /\ schedule_content(nextId, i[1], i[2], i[3], i[4])

\* the wall clock is set back to its previous reading; acceptedToday then
\* counts from this step on if the calendar date changes with it
ClockSetBack ==
    /\ now > 0
    /\ now' = now - 1
    /\ acceptedToday' = IF (now - 1) \div TicksPerDay # Today
                        THEN NoneAccepted ELSE acceptedToday
    /\ UNCHANGED <<max_daily_articles, max_daily_social, daily_stats, queue,
                   nextId, op, args, result>>
    /\ UNCHANGED abVars
    /\ UNCHANGED restVars

NextClock ==
    \/ ScheduleOnClock
    \/ CanPublishMore
    \/ GetDailyStats
    \/ Tick
    \/ ClockSetBack

SpecClock == Init /\ [][NextClock]_vars

(***************************************************************************)
(* The test manager driven by its callers.                                 *)
(***************************************************************************)
\* "t1" is the test created; "t0" is never created
TestNames == {"t1"}

LookupNames == {"t0", "t1"}

\* the variant lists tests are created with; the first variant is the baseline
VariantLists == {<<"A", "B", "C">>}

\* variant names results are recorded for; "Z" is in no test
VariantNames == {"A", "B", "C", "Z"}

\* the min_samples tests are created with
MinSamples == {2, 3}

\* the metrics of one result
Metrics ==
    { [clicks |-> 0, shares |-> 0, comments |-> 0, time_spent |-> 0],
      [clicks |-> 1, shares |-> 1, comments |-> 0, time_spent |-> 300],
      [clicks |-> 0, shares |-> 1, comments |-> 1, time_spent |-> 60] }

\* a ContentScheduler that is not used, and ABTestManager.__init__
InitManager ==
    /\ max_daily_articles = 10
    /\ max_daily_social = 5
    /\ now = 0
    /\ daily_stats = [articles |-> 0, summaries |-> 0, social |-> 0, date |-> 0]
    /\ queue = EmptyQueue
    /\ nextId = 1
    /\ acceptedToday = NoneAccepted
    /\ op = "init"
    /\ args = <<>>
    /\ result = <<>>
    /\ InitAB
    /\ InitRest

CreateTest ==
    \E name \in TestNames, variants \in VariantLists, min_samples \in MinSamples :
        /\ name \in DOMAIN active_tests
           \/ Len(test_history) + Cardinality(DOMAIN active_tests) < MaxTests
        /\ create_test(name, variants, min_samples)

\* the impressions of the tests a dict holds
RECURSIVE SamplesHeld(_, _)
SamplesHeld(dict, names) ==
    IF names = {} THEN 0
    ELSE LET n == CHOOSE x \in names : TRUE
         IN  total_samples(dict[n]) + SamplesHeld(dict, names \ {n})

RecordResult ==
    \E test_name \in TestNames, variant \in VariantNames, metrics \in Metrics :
        /\ SamplesHeld(active_tests, DOMAIN active_tests)
              + SamplesHeld(completed_tests, DOMAIN completed_tests) < MaxSamples
        /\ record_result(test_name, variant, metrics)

GetTestStats == \E test_name \in LookupNames : get_test_stats(test_name)

SelectVariant == \E test_name \in LookupNames : select_variant(test_name)

NextManager ==
    \/ CreateTest
    \/ RecordResult
    \/ GetTestStats
    \/ SelectVariant

SpecManager == InitManager /\ [][NextManager]_vars

(***************************************************************************)
(* The scorer's functions applied to inputs of the caller's choice.        *)
(***************************************************************************)
\* scores in tenths, 0.0 to 10.0
Scores == 0..100

InitScorer ==
    /\ max_daily_articles = 10
    /\ max_daily_social = 5
    /\ now = 0
    /\ daily_stats = [articles |-> 0, summaries |-> 0, social |-> 0, date |-> 0]
    /\ queue = EmptyQueue
    /\ nextId = 1
    /\ acceptedToday = NoneAccepted
    /\ op = "init"
    /\ args = <<>>
    /\ result = <<>>
    /\ InitAB
    /\ InitRest

DeterminePublishType ==
    \E score \in Scores :
        /\ op' = "determine_publish_type"
        /\ args' = <<score>>
        /\ result' = determine_publish_type(score)
        /\ UNCHANGED schedVars
        /\ UNCHANGED abVars
        /\ UNCHANGED restVars

CalculateContentScore ==
    \E i \in AllInputs :
        /\ op' = "calculate_content_score"
        /\ args' = i
        /\ result' = calculate_content_score(i[1], i[2], i[3], i[4])
        /\ UNCHANGED schedVars
        /\ UNCHANGED abVars
        /\ UNCHANGED restVars

NextScorer ==
    \/ DeterminePublishType
    \/ CalculateContentScore

SpecScorer == InitScorer /\ [][NextScorer]_vars

(***************************************************************************)
(* backend/app/core/scraping_scheduler.py: the duplicate filter, the       *)
(* secondary score and gather_source_data.                                 *)
(*                                                                         *)
(* A scraped item is a dict, here a record that may lack any of its keys.  *)
(* A title is the sequence of its characters.  The secondary score is kept *)
(* in tenths like the scorer's.  An item's content is kept as its length,  *)
(* its scraped_at as whether datetime.fromisoformat accepts it (valid) and *)
(* the item's age in minutes when _score_content reads the clock.          *)
(***************************************************************************)
\* the fields of class Settings (config.py) the scraping code reads; the
\* class defines no MAX_ARTICLES_PER_CYCLE
settings == [MIN_CONTENT_SCORE |-> 50, POSTS_PER_DAY |-> 10]

\* dict.get(key, default)
Get(item, key, default) == IF key \in DOMAIN item THEN item[key] ELSE default

Uppercase == <<"A", "B", "C", "D", "E", "F", "G", "H", "I", "J", "K", "L", "M",
               "N", "O", "P", "Q", "R", "S", "T", "U", "V", "W", "X", "Y", "Z">>

Lowercase == <<"a", "b", "c", "d", "e", "f", "g", "h", "i", "j", "k", "l", "m",
               "n", "o", "p", "q", "r", "s", "t", "u", "v", "w", "x", "y", "z">>

\* mutant: the title is compared as written
lower_as_written(title) == title

\* str.lower() on a title
lower(title) ==
    [k \in 1..Len(title) |->
        IF \E u \in 1..Len(Uppercase) : Uppercase[u] = title[k]
        THEN Lowercase[CHOOSE u \in 1..Len(Uppercase) : Uppercase[u] = title[k]]
        ELSE title[k]]

\* a in b, on strings
IsSubstring(a, b) ==
    \E i \in 0..(Len(b) - Len(a)) : SubSeq(b, i + 1, i + Len(a)) = a

\* the loop of _filter_duplicate_content from item k on
RECURSIVE filter_loop(_, _, _, _)
filter_loop(items, k, seen_titles, unique_items) ==
    IF k > Len(items) THEN unique_items
    ELSE LET title == lower(Get(items[k], "title", <<>>))
         IN  IF ~(\E seen_title \in seen_titles :
                    IsSubstring(title, seen_title) \/ IsSubstring(seen_title, title))
             THEN filter_loop(items, k + 1, seen_titles \cup {title},
                              Append(unique_items, items[k]))
             ELSE filter_loop(items, k + 1, seen_titles, unique_items)

\* ScrapingScheduler._filter_duplicate_content
_filter_duplicate_content(items) == filter_loop(items, 1, {}, <<>>)

\* str.upper() on the content types scraped
upper(content_type) ==
    CASE content_type = "match_result" -> "MATCH_RESULT"
      [] content_type = "transfer_news" -> "TRANSFER_NEWS"
      [] content_type = "tactical_analysis" -> "TACTICAL_ANALYSIS"
      [] content_type = "team_update" -> "TEAM_UPDATE"
      [] content_type = "rumor" -> "RUMOR"
      [] content_type = "opinion" -> "OPINION"
      [] OTHER -> content_type

\* str.lower() on the sources scraped
lower_source(source) ==
    CASE source = "Globo Esporte" -> "globo esporte"
      [] source = "ESPN Brasil" -> "espn brasil"
      [] source = "Lance!" -> "lance!"
      [] OTHER -> source

\* mutant: the base score of 1.0 is not added
_score_content_no_base(item) ==
    LET engagement == Get(item, "engagement_count", 0)
        engagement_score == IF engagement > 1000 THEN 50
                            ELSE IF engagement > 500 THEN 40
                            ELSE IF engagement > 100 THEN 30
                            ELSE IF engagement > 50 THEN 20
                            ELSE IF engagement > 10 THEN 10
                            ELSE 0
        trending_bonus == IF Get(item, "is_trending", FALSE) THEN 30 ELSE 0
        content_type == upper(Get(item, "content_type", ""))
        type_score == CASE content_type = "MATCH_RESULT" -> 40
                        [] content_type = "TRANSFER_NEWS" -> 35
                        [] content_type = "TACTICAL_ANALYSIS" -> 30
                        [] content_type = "TEAM_UPDATE" -> 25
                        [] content_type = "RUMOR" -> 20
                        [] OTHER -> 10
        source == lower_source(Get(item, "source", ""))
        source_score == CASE source = "globo esporte" -> 50
                          [] source = "espn brasil" -> 45
                          [] source = "lance!" -> 40
                          [] OTHER -> 30
        content_length == Get(item, "content", 0)
        length_score == IF content_length > 1000 THEN 20
                        ELSE IF content_length > 500 THEN 10
                        ELSE 0
        recency_bonus == IF "scraped_at" \notin DOMAIN item THEN 0
                         ELSE IF ~item.scraped_at.valid THEN 0
                         ELSE IF item.scraped_at.age < 60 THEN 20
                         ELSE IF item.scraped_at.age < 180 THEN 10
                         ELSE 0
    IN  engagement_score + trending_bonus + type_score + source_score
           + length_score + recency_bonus

\* ScrapingScheduler._score_content, in tenths
_score_content(item) ==
    LET engagement == Get(item, "engagement_count", 0)
        engagement_score == IF engagement > 1000 THEN 50
                            ELSE IF engagement > 500 THEN 40
                            ELSE IF engagement > 100 THEN 30
                            ELSE IF engagement > 50 THEN 20
                            ELSE IF engagement > 10 THEN 10
                            ELSE 0
        trending_bonus == IF Get(item, "is_trending", FALSE) THEN 30 ELSE 0
        content_type == upper(Get(item, "content_type", ""))
        type_score == CASE content_type = "MATCH_RESULT" -> 40
                        [] content_type = "TRANSFER_NEWS" -> 35
                        [] content_type = "TACTICAL_ANALYSIS" -> 30
                        [] content_type = "TEAM_UPDATE" -> 25
                        [] content_type = "RUMOR" -> 20
                        [] OTHER -> 10
        source == lower_source(Get(item, "source", ""))
        source_score == CASE source = "globo esporte" -> 50
                          [] source = "espn brasil" -> 45
                          [] source = "lance!" -> 40
                          [] OTHER -> 30
        content_length == Get(item, "content", 0)
        length_score == IF content_length > 1000 THEN 20
                        ELSE IF content_length > 500 THEN 10
                        ELSE 0
        recency_bonus == IF "scraped_at" \notin DOMAIN item THEN 0
                         ELSE IF ~item.scraped_at.valid THEN 0
                         ELSE IF item.scraped_at.age < 60 THEN 20
                         ELSE IF item.scraped_at.age < 180 THEN 10
                         ELSE 0
    IN  10 + engagement_score + trending_bonus + type_score + source_score
           + length_score + recency_bonus

\* gather_source_data, "Score and filter content": scored_articles when the
\* loop over all_articles ends; each article kept carries its score
RECURSIVE score_loop(_, _)
score_loop(all_articles, k) ==
    IF k > Len(all_articles) THEN <<>>
    ELSE LET article == all_articles[k]
             score == _score_content(article)
         IN  IF score >= settings.MIN_CONTENT_SCORE
             THEN <<[n \in DOMAIN article \cup {"score"} |->
                        IF n = "score" THEN score ELSE article[n]]>>
                  \o score_loop(all_articles, k + 1)
             ELSE score_loop(all_articles, k + 1)

\* list.sort(key=score, reverse=True) places one more article: behind every
\* article of at least its score (the sort is stable)
insert_by_score(sorted, article) ==
    LET ahead == {k \in 1..Len(sorted) : sorted[k].score >= article.score}
        n == Cardinality(ahead)
    IN  SubSeq(sorted, 1, n) \o <<article>> \o SubSeq(sorted, n + 1, Len(sorted))

\* scored_articles.sort(key=lambda x: x['score'], reverse=True)
RECURSIVE sort_by_score(_, _, _)
sort_by_score(scored_articles, k, sorted) ==
    IF k > Len(scored_articles) THEN sorted
    ELSE sort_by_score(scored_articles, k + 1,
                       insert_by_score(sorted, scored_articles[k]))

\* gather_source_data, what it ranks: scored_articles after the sort
scored_articles(news_articles, social_articles) ==
    sort_by_score(score_loop(news_articles \o social_articles, 1), 1, <<>>)

\* ScrapingScheduler.gather_source_data: the list returned.  Reading
\* settings.MAX_ARTICLES_PER_CYCLE raises AttributeError, since Settings has
\* no such field; the except clause logs it and returns []
gather_source_data(news_articles, social_articles) ==
    LET ranked == scored_articles(news_articles, social_articles)
    IN  IF "MAX_ARTICLES_PER_CYCLE" \notin DOMAIN settings
        THEN <<>>
        ELSE SubSeq(ranked, 1,
                    IF settings.MAX_ARTICLES_PER_CYCLE < Len(ranked)
                    THEN settings.MAX_ARTICLES_PER_CYCLE ELSE Len(ranked))

(***************************************************************************)
(* The scraping scheduler's methods applied to scraped batches.            *)
(***************************************************************************)
\* items in one list handed to _filter_duplicate_content, and items the
\* two scrapers return together to gather_source_data
MaxBatch == 3

\* the items scraped: the two titles of the specification's example, titles
\* that differ in case only or contain one another, an item without a
\* title, and secondary scores from the least (5.0) up, two of them equal
ScrapedItems ==
    { [title |-> <<"T", "i", "m", "e", " ", "v", "e", "n", "c", "e", " ", "j",
                   "o", "g", "o">>,
       content_type |-> "match_result", source |-> "Globo Esporte",
       engagement_count |-> 1500, is_trending |-> TRUE, content |-> 1200,
       scraped_at |-> [valid |-> TRUE, age |-> 30]],
      [title |-> <<"O", " ", "t", "i", "m", "e", " ", "v", "e", "n", "c", "e",
                   " ", "j", "o", "g", "o", " ", "h", "o", "j", "e">>,
       content_type |-> "match_result", source |-> "Lance!",
       engagement_count |-> 600, is_trending |-> FALSE, content |-> 600,
       scraped_at |-> [valid |-> TRUE, age |-> 120]],
      [title |-> <<"g", "o", "l">>, content_type |-> "transfer_news",
       source |-> "ESPN Brasil", engagement_count |-> 101,
       scraped_at |-> [valid |-> FALSE]],
      [title |-> <<"G", "O", "L">>, content_type |-> "rumor", source |-> "blog",
       engagement_count |-> 51, is_trending |-> TRUE, content |-> 501,
       scraped_at |-> [valid |-> TRUE, age |-> 200]],
      [title |-> <<"G", "o", "l", "s">>, content_type |-> "opinion",
       engagement_count |-> 11],
      [title |-> <<"o", "l">>, content_type |-> "team_update",
       engagement_count |-> 10],
      [url |-> "u"] }

\* the lists of at most n scraped items
Batches(n) == UNION {[1..m -> ScrapedItems] : m \in 0..n}

InitScraping ==
    /\ max_daily_articles = settings.POSTS_PER_DAY
    /\ max_daily_social = 5
    /\ now = 0
    /\ daily_stats = [articles |-> 0, summaries |-> 0, social |-> 0, date |-> 0]
    /\ queue = EmptyQueue
    /\ nextId = 1
    /\ acceptedToday = NoneAccepted
    /\ op = "init"
    /\ args = <<>>
    /\ result = <<>>
    /\ InitAB
    /\ InitRest

\* neither method keeps state between calls: one call per behaviour
FilterDuplicateContent ==
    /\ op = "init"
    /\ \E items \in Batches(MaxBatch) :
            /\ op' = "_filter_duplicate_content"
            /\ args' = <<items>>
            /\ result' = _filter_duplicate_content(items)
            /\ UNCHANGED schedVars
            /\ UNCHANGED abVars
            /\ UNCHANGED restVars

GatherSourceData ==
    /\ op = "init"
    /\ \E news_articles \in Batches(MaxBatch - 1), social_articles \in Batches(1) :
            /\ op' = "gather_source_data"
            /\ args' = <<news_articles, social_articles>>
            /\ result' = gather_source_data(news_articles, social_articles)
            /\ UNCHANGED schedVars
            /\ UNCHANGED abVars
            /\ UNCHANGED restVars

\* the items scored one by one: every tier of every bonus, on and around
\* its threshold, a timestamp that does not parse, one in the future, and
\* items without a timestamp or without any of the fields
ScoredItems ==
    LET fields == [content_type : {"", "opinion", "rumor", "team_update", "match_result"},
                   source : {"", "blog", "Lance!", "Globo Esporte"},
                   engagement_count : {0, 10, 11, 51, 101, 501, 1000, 1001},
                   is_trending : BOOLEAN,
                   content : {0, 500, 501, 1001}]
        stamps == {[valid |-> FALSE], [valid |-> TRUE, age |-> 0 - 5],
                   [valid |-> TRUE, age |-> 59], [valid |-> TRUE, age |-> 60],
                   [valid |-> TRUE, age |-> 179], [valid |-> TRUE, age |-> 180]}
    IN  fields
        \cup {[n \in DOMAIN f \cup {"scraped_at"} |->
                  IF n = "scraped_at" THEN t ELSE f[n]] : f \in fields, t \in stamps}
        \cup {[url |-> "u"]}

\* _score_content applied to one item
ScoreContent ==
    /\ op = "init"
    /\ \E item \in ScoredItems :
            /\ op' = "_score_content"
            /\ args' = <<item>>
            /\ result' = _score_content(item)
            /\ UNCHANGED schedVars
            /\ UNCHANGED abVars
            /\ UNCHANGED restVars

NextScraping ==
    \/ FilterDuplicateContent
    \/ GatherSourceData
    \/ ScoreContent

SpecScraping == InitScraping /\ [][NextScraping]_vars

(***************************************************************************)
(* Properties of the scheduler and the scorer.                             *)
(***************************************************************************)
\* the counters daily_stats holds once reset_daily_stats has run today
StatsAfterReset ==
    IF daily_stats.date # Today
    THEN [articles |-> 0, summaries |-> 0, social |-> 0, date |-> Today]
    ELSE daily_stats

\* a step that is a schedule_content call
IsScheduleStep == nextId' = nextId + 1

\* the publish type the last schedule_content call derived
ResultType == IF result.scheduled THEN result.publish_type
              ELSE result.evaluation.publish_type

\* the score the last schedule_content call derived
ResultScore == IF result.scheduled THEN result.score ELSE result.evaluation.score

\* the content payloads a heap holds
Contents(heap) == {heap[k].content : k \in 1..Len(heap)}

QueuedContents(q) == Contents(q.articles) \cup Contents(q.summaries) \cup Contents(q.social)

\* C1: the daily counters never exceed their caps (articles and summaries
\* max_daily_articles, social max_daily_social), and no more than the cap
\* of any publish type is accepted on one calendar day
C1_CountersWithinCaps ==
    /\ daily_stats.articles <= max_daily_articles
    /\ daily_stats.summaries <= max_daily_articles
    /\ daily_stats.social <= max_daily_social
    /\ acceptedToday["full_article"] <= max_daily_articles
    /\ acceptedToday["summary"] <= max_daily_articles
    /\ acceptedToday["social"] <= max_daily_social

\* the article and social caps are both reached, and a further article was
\* turned away
C1_Witness ==
    /\ max_daily_articles >= 1
    /\ max_daily_social >= 1
    /\ daily_stats.articles = max_daily_articles
    /\ daily_stats.social = max_daily_social
    /\ op = "schedule_content"
    /\ ~result.scheduled
    /\ result.evaluation.publish_type = "full_article"

\* C2: with max_daily_articles >= 1, a FULL_ARTICLE-scoring call made when
\* max_daily_articles of them were accepted this calendar day returns
\* scheduled: false, and one made when the calendar date differs from the
\* stored date (the date rolled over) returns scheduled: true
C2_QuotaThenRollover ==
    [][(IsScheduleStep /\ max_daily_articles >= 1 /\ ResultType' = "full_article")
        => /\ acceptedToday["full_article"] >= max_daily_articles
                => ~result'.scheduled
           /\ daily_stats.date # Today => result'.scheduled]_vars

\* the cap was used up on the first day, an article was turned away, and
\* after the rollover an article is accepted again
C2_Witness ==
    /\ max_daily_articles = 1
    /\ nextId = 4
    /\ Len(queue.articles) = 2
    /\ queue.articles[1].created_at \div TicksPerDay # queue.articles[2].created_at \div TicksPerDay
    /\ queue.summaries = <<>>
    /\ queue.social = <<>>
    /\ daily_stats = [articles |-> 1, summaries |-> 0, social |-> 0, date |-> Today]
    /\ Today >= 1
    /\ op = "schedule_content"
    /\ result.scheduled
    /\ result.publish_type = "full_article"

\* a bucket of the schedule is in non-increasing score order, equal scores
\* in the order scheduled (the content payloads number the calls)
BucketOrdered(bucket) ==
    \A i, j \in 1..Len(bucket) :
        i < j => \/ bucket[i].score > bucket[j].score
                 \/ /\ bucket[i].score = bucket[j].score
                    /\ bucket[i].content < bucket[j].content

\* C3: every bucket get_publishing_schedule returns is in non-increasing
\* score order, and items of equal score come out in the order in which
\* they were scheduled
C3_DrainOrder ==
    op = "get_publishing_schedule" =>
        /\ BucketOrdered(result.articles)
        /\ BucketOrdered(result.summaries)
        /\ BucketOrdered(result.social)

\* C4: determine_publish_type(s) is FULL_ARTICLE iff s >= 8, SUMMARY iff
\* 6 <= s < 8, SOCIAL iff 4 <= s < 6, DISCARD iff s < 4, for every score in
\* tenths from 0.0 to 10.0; 8.0 is FULL_ARTICLE and 7.9 is SUMMARY
C4_PublishTypeLadder ==
    op = "determine_publish_type" =>
        LET s == args[1]
        IN  /\ (result = "full_article") <=> (s >= 80)
            /\ (result = "summary") <=> (60 <= s /\ s < 80)
            /\ (result = "social") <=> (40 <= s /\ s < 60)
            /\ (result = "discard") <=> (s < 40)
            /\ s = 80 => result = "full_article"
            /\ s = 79 => result = "summary"

\* 7.9 was classified, as SUMMARY
C4_Witness ==
    /\ op = "determine_publish_type"
    /\ args = <<79>>
    /\ result = "summary"

\* the score the specification states for an input, in tenths:
\* importance*0.5 + engagement*0.3 + trend*0.2
StatedScore(content_type, engagement_count, is_trending, has_engagement) ==
    LET importance == CASE content_type = "match_result" -> 10
                        [] content_type = "transfer_news" -> 8
                        [] content_type = "tactical_analysis" -> 6
                        [] content_type = "team_update" -> 4
                        [] content_type = "rumor" -> 2
        engagement == IF engagement_count >= 10000 THEN 10
                      ELSE IF engagement_count >= 1000 THEN 6 ELSE 2
        trend == IF is_trending THEN 10 ELSE IF has_engagement THEN 6 ELSE 2
    IN  importance * 5 + engagement * 3 + trend * 2

\* C5: calculate_content_score returns importance*0.5 + engagement*0.3 +
\* trend*0.2 to one decimal, with importance 10/8/6/4/2 by type, engagement
\* 10 from 10000, 6 from 1000, else 2, and trend 10 if trending, else 6 if
\* has_engagement, else 2; the result lies in [2.0, 10.0]
C5_ContentScore ==
    op = "calculate_content_score" =>
        /\ result = StatedScore(args[1], args[2], args[3], args[4])
        /\ 20 <= result /\ result <= 100

\* a count on the high tier's threshold was scored: MATCH_RESULT with
\* 10000, not trending, has_engagement is 5.0 + 3.0 + 1.2
C5_Witness ==
    /\ op = "calculate_content_score"
    /\ args = <<"match_result", 10000, FALSE, TRUE>>
    /\ result = 92

\* the publish time the specification states for a content type, HH:MM
StatedPublishTime(content_type) ==
    IF content_type \in {"tactical_analysis", "transfer_news"} THEN <<1, 0, 0, 0>>
    ELSE IF content_type = "match_result" THEN <<2, 0, 0, 0>>
    ELSE <<1, 5, 0, 0>>

\* the publish type the threshold ladder gives a score
StatedType(score) ==
    IF score >= 80 THEN "full_article"
    ELSE IF score >= 60 THEN "summary"
    ELSE IF score >= 40 THEN "social" ELSE "discard"

\* the derived publish type still has quota when schedule_content is called
HasQuota(publish_type) ==
    CASE publish_type = "full_article" -> StatsAfterReset.articles < max_daily_articles
      [] publish_type = "summary" -> StatsAfterReset.summaries < max_daily_articles
      [] publish_type = "social" -> StatsAfterReset.social < max_daily_social
      [] OTHER -> FALSE

\* C6: a schedule_content call whose derived publish type still has quota
\* returns scheduled: true with the stated score, the publish type of the
\* ladder, the truncated midpoint hour of the content type's slot (10:00,
\* 15:00, 20:00) and priority high from 8, medium from 6, else low;
\* TRANSFER_NEWS with 1500, not trending, has_engagement gives 7.0, summary,
\* 10:00, medium
C6_ScheduleResult ==
    [][IsScheduleStep =>
        LET score == StatedScore(args'[1], args'[2], args'[3], args'[4])
        IN  /\ HasQuota(StatedType(score)) =>
                result' = [scheduled |-> TRUE,
                           publish_time |-> StatedPublishTime(args'[1]),
                           content_type |-> args'[1],
                           publish_type |-> StatedType(score),
                           score |-> score,
                           priority |-> IF score >= 80 THEN "high"
                                        ELSE IF score >= 60 THEN "medium"
                                        ELSE "low"]
            /\ (args' = <<"transfer_news", 1500, FALSE, TRUE>>
                    /\ StatsAfterReset.summaries < max_daily_articles) =>
                result' = [scheduled |-> TRUE,
                           publish_time |-> <<1, 0, 0, 0>>,
                           content_type |-> "transfer_news",
                           publish_type |-> "summary",
                           score |-> 70,
                           priority |-> "medium"]]_vars

\* an evening item was accepted with quota to spare: MATCH_RESULT at 20:00
C6_Witness ==
    /\ op = "schedule_content"
    /\ args[1] = "match_result"
    /\ result.scheduled
    /\ result.publish_time = <<2, 0, 0, 0>>
    /\ result.priority = "high"
    /\ daily_stats.articles = 2

\* C7: content scored DISCARD (score < 4) is turned away whatever the
\* counters are, and the articles queue holds only FULL_ARTICLE items with
\* score >= 8, the summaries queue only SUMMARY items with 6 <= score < 8,
\* the social queue only SOCIAL items with 4 <= score < 6
C7_DiscardNeverQueued ==
    /\ op = "schedule_content" =>
          ((ResultType = "discard" \/ ResultScore < 40) => ~result.scheduled)
    /\ \A k \in 1..Len(queue.articles) :
          /\ queue.articles[k].publish_type = "full_article"
          /\ queue.articles[k].score >= 80
    /\ \A k \in 1..Len(queue.summaries) :
          /\ queue.summaries[k].publish_type = "summary"
          /\ queue.summaries[k].score >= 60
          /\ queue.summaries[k].score < 80
    /\ \A k \in 1..Len(queue.social) :
          /\ queue.social[k].publish_type = "social"
          /\ queue.social[k].score >= 40
          /\ queue.social[k].score < 60

\* a DISCARD item was turned away while every counter had room
C7_Witness ==
    /\ op = "schedule_content"
    /\ ~result.scheduled
    /\ result.evaluation.publish_type = "discard"
    /\ result.evaluation.score < 40
    /\ daily_stats.articles < max_daily_articles
    /\ daily_stats.summaries < max_daily_articles
    /\ daily_stats.social < max_daily_social
    /\ queue.articles # <<>>

\* C8: a schedule_content call that returns scheduled: false leaves the
\* three queues as they were and daily_stats as the date-rollover reset
\* leaves it, and no later operation brings the item back: a content
\* payload enters a queue only in the schedule_content call that accepts it
C8_RejectedIsDropped ==
    [][/\ (IsScheduleStep /\ ~result'.scheduled) =>
             /\ queue' = queue
             /\ daily_stats' = StatsAfterReset
       /\ \A c \in QueuedContents(queue') \ QueuedContents(queue) :
             /\ IsScheduleStep
             /\ result'.scheduled
             /\ c = nextId]_vars

\* an article was turned away at the cap while accepted ones wait in the queue
C8_Witness ==
    /\ op = "schedule_content"
    /\ ~result.scheduled
    /\ result.evaluation.publish_type = "full_article"
    /\ max_daily_articles >= 1
    /\ daily_stats.articles = max_daily_articles
    /\ Len(queue.articles) = max_daily_articles

EmptySchedule == [articles |-> <<>>, summaries |-> <<>>, social |-> <<>>]

\* a step that is a get_publishing_schedule call (the clock's steps leave
\* op, result and queue as they are)
IsDrainStep ==
    /\ op' = "get_publishing_schedule"
    /\ op # "get_publishing_schedule" \/ result' # result \/ queue' # queue

\* C9: after get_publishing_schedule returns all three queues are empty;
\* they stay empty until a schedule_content call, and a call that finds
\* them empty returns three empty lists
C9_DestructiveRead ==
    /\ [](op = "get_publishing_schedule" => queue = EmptyQueue)
    /\ [][(queue = EmptyQueue /\ ~IsScheduleStep) => queue' = EmptyQueue]_vars
    /\ [][(IsDrainStep /\ queue = EmptyQueue) => result' = EmptySchedule]_vars

\* items were accepted today, the schedule was read, and a further read
\* returned three empty lists
C9_Witness ==
    /\ op = "get_publishing_schedule"
    /\ result = EmptySchedule
    /\ queue = EmptyQueue
    /\ daily_stats.date = Today
    /\ daily_stats.articles >= 1
    /\ daily_stats.social >= 1

(***************************************************************************)
(* Properties of the A/B tests.                                            *)
(***************************************************************************)
\* the stats the last call returned, if it returned stats
ReturnedStats ==
    IF op = "record_result" /\ "test_stats" \in DOMAIN result THEN <<result.test_stats>>
    ELSE IF op = "get_test_stats" /\ "total_samples" \in DOMAIN result THEN <<result>>
    ELSE <<>>

\* the test the last call named: the active one, else the completed one
NamedTest ==
    IF args[1] \in DOMAIN active_tests THEN active_tests[args[1]]
    ELSE completed_tests[args[1]]

\* the impressions of a test over all its variants
RECURSIVE ImpressionsFrom(_, _)
ImpressionsFrom(test, k) ==
    IF k > Len(test.variants) THEN 0
    ELSE test.results[test.variants[k]].impressions + ImpressionsFrom(test, k + 1)

\* C10: while a test's impressions over all variants are below min_samples,
\* the stats returned for it have status collecting_data, winner None and
\* confidence None, whatever the variants' metrics are
C10_CollectingBelowMinSamples ==
    ReturnedStats # <<>> =>
        (ImpressionsFrom(NamedTest, 1) < NamedTest.min_samples =>
            /\ ReturnedStats[1].status = "collecting_data"
            /\ ReturnedStats[1].winner = None
            /\ ReturnedStats[1].confidence = None)

\* two variants have impressions and differ in their metrics, and the
\* test is still one impression short of min_samples
C10_Witness ==
    /\ op = "record_result"
    /\ "test_stats" \in DOMAIN result
    /\ result.test_stats.status = "collecting_data"
    /\ result.test_stats.total_samples = 2
    /\ NamedTest.min_samples = 3
    /\ DOMAIN result.test_stats.variants = {"A", "B"}
    /\ result.test_stats.variants["A"].ctr.num = 0
    /\ result.test_stats.variants["B"].ctr.num = 1

\* 1500 times the composite score of a variant's returned data, times its
\* impressions: ctr, engagement_rate and avg_time_spent are all over the
\* variant's impressions
ScoreNum(data) ==
    600 * data.ctr.num + 600 * data.engagement_rate.num + data.avg_time_spent.num

\* the composite score of x is below, or equal to, that of y
ScoreLess(x, y) == ScoreNum(x) * y.impressions < ScoreNum(y) * x.impressions

ScoreEqual(x, y) == ScoreNum(x) * y.impressions = ScoreNum(y) * x.impressions

\* the place of a variant in the test's variant order
Position(variants, v) == CHOOSE k \in 1..Len(variants) : variants[k] = v

\* C11: when get_stats picks a winner, it is a variant with impressions > 0
\* whose composite score is maximal among the variants with impressions,
\* and of the variants that tie for the maximum it is the earliest in the
\* test's variant order
C11_WinnerIsFirstMaximum ==
    (ReturnedStats # <<>> /\ ReturnedStats[1].winner # None) =>
        LET data == ReturnedStats[1].variants
            winner == ReturnedStats[1].winner
        IN  /\ winner \in DOMAIN data
            /\ data[winner].impressions > 0
            /\ NamedTest.results[winner].impressions > 0
            /\ \A v \in DOMAIN data :
                  /\ ScoreLess(data[v], data[winner]) \/ ScoreEqual(data[v], data[winner])
                  /\ ScoreEqual(data[v], data[winner]) =>
                        Position(NamedTest.variants, winner)
                            <= Position(NamedTest.variants, v)

\* B and C tie for the maximum, the baseline A scores less, and B wins
C11_Witness ==
    /\ op = "record_result"
    /\ "test_stats" \in DOMAIN result
    /\ result.test_stats.winner = "B"
    /\ DOMAIN result.test_stats.variants = {"A", "B", "C"}
    /\ ScoreEqual(result.test_stats.variants["B"], result.test_stats.variants["C"])
    /\ ScoreLess(result.test_stats.variants["A"], result.test_stats.variants["B"])

\* the names of the tests whose snapshots test_history holds
HistoryNames == {test_history[k].test_name : k \in 1..Len(test_history)}

\* a step that is a record_result call returning stats with status completed
IsCompletingStep ==
    /\ op' = "record_result"
    /\ "test_stats" \in DOMAIN result'
    /\ result'.test_stats.status = "completed"

\* C12: a test (tests are keyed by name) is moved from active_tests to
\* completed_tests and its snapshot appended to test_history at most once,
\* by the record_result call whose stats have status completed, and a
\* completed test never becomes active again
C12_CompletesAtMostOnce ==
    [][/\ IsCompletingStep =>
             /\ args'[1] \in DOMAIN active_tests
             /\ args'[1] \notin DOMAIN active_tests'
             /\ args'[1] \in DOMAIN completed_tests'
             /\ test_history' = Append(test_history, result'.test_stats)
       /\ (completed_tests' # completed_tests \/ test_history' # test_history) =>
             /\ IsCompletingStep
             /\ args'[1] \notin DOMAIN completed_tests
             /\ args'[1] \notin HistoryNames
       /\ \A n \in DOMAIN completed_tests :
             /\ n \in DOMAIN completed_tests'
             /\ n \notin DOMAIN active_tests']_vars

\* C13: once a test has completed, every later record_result for its name
\* returns the error Test not found and leaves active_tests, completed_tests
\* (the completed test's accumulators) and test_history as they were, and
\* select_variant for its name returns None
C13_CompletedIsFrozen ==
    [][/\ (op' = "record_result" /\ args'[1] \in DOMAIN completed_tests) =>
             /\ result' = [error |-> "Test not found"]
             /\ active_tests' = active_tests
             /\ completed_tests' = completed_tests
             /\ test_history' = test_history
       /\ (op' = "select_variant" /\ args'[1] \in DOMAIN completed_tests) =>
             result' = [none |-> None]]_vars

\* C14: create_test with a name that is in active_tests returns the error
\* Test already exists and leaves the existing test (variants, min_samples,
\* accumulators), active_tests, completed_tests and test_history as they were
C14_DuplicateCreateRejected ==
    [][(op' = "create_test" /\ args'[1] \in DOMAIN active_tests) =>
          /\ result' = [error |-> "Test already exists"]
          /\ active_tests' = active_tests
          /\ completed_tests' = completed_tests
          /\ test_history' = test_history]_vars

\* a second create_test, with another min_samples, was turned away while
\* the active test of that name holds impressions and keeps its min_samples
C14_Witness ==
    /\ op = "create_test"
    /\ result = [error |-> "Test already exists"]
    /\ args[1] \in DOMAIN active_tests
    /\ active_tests[args[1]].min_samples # args[3]
    /\ active_tests[args[1]].results["B"].impressions = 2
    /\ active_tests[args[1]].results["B"].clicks = 2

\* the variants of a test that have impressions
WithImpressions(test) == {v \in DOMAIN test.results : test.results[v].impressions > 0}

\* C15: when a test's impressions have reached min_samples but fewer than
\* two variants have impressions, the stats returned have winner None,
\* confidence None and status collecting_data, and record_result keeps the
\* test in active_tests
C15_SingleVariantKeepsCollecting ==
    ReturnedStats # <<>> =>
        ((/\ ImpressionsFrom(NamedTest, 1) >= NamedTest.min_samples
          /\ Cardinality(WithImpressions(NamedTest)) < 2) =>
            /\ ReturnedStats[1].winner = None
            /\ ReturnedStats[1].confidence = None
            /\ ReturnedStats[1].status = "collecting_data"
            /\ op = "record_result" => args[1] \in DOMAIN active_tests)

\* C17: record_result and get_test_stats return a normal value and never
\* raise, whatever the distribution of impressions over the variants (the
\* baseline variants[0] without impressions while others have some, no
\* variant with shares or comments) and whatever the non-negative metrics
C17_NeverRaises ==
    op \in {"record_result", "get_test_stats"} => "raised" \notin DOMAIN result

(***************************************************************************)
(* Properties of the scraping scheduler.                                   *)
(***************************************************************************)
\* the title of an item, the empty string if it has none
TitleAsWritten(item) == IF "title" \in DOMAIN item THEN item.title ELSE <<>>

\* the lowercased title of an item
TitleOf(item) == lower(TitleAsWritten(item))

\* the titles of the specification's example
ExampleFirst == <<"T", "i", "m", "e", " ", "v", "e", "n", "c", "e", " ", "j", "o",
                  "g", "o">>

ExampleSecond == <<"O", " ", "t", "i", "m", "e", " ", "v", "e", "n", "c", "e", " ",
                   "j", "o", "g", "o", " ", "h", "o", "j", "e">>

\* the lowercased title of one of the items is a substring of the other's
Related(x, y) ==
    IsSubstring(TitleOf(x), TitleOf(y)) \/ IsSubstring(TitleOf(y), TitleOf(x))

\* the items of a list at the places kept, in the list's order
RECURSIVE Restrict(_, _, _)
Restrict(items, kept, k) ==
    IF k > Len(items) THEN <<>>
    ELSE IF k \in kept THEN <<items[k]>> \o Restrict(items, kept, k + 1)
    ELSE Restrict(items, kept, k + 1)

\* no title of the list contains another's
NoContainedTitles(items) ==
    \A i, j \in 1..Len(items) : i # j => ~Related(items[i], items[j])

\* C16: _filter_duplicate_content keeps an item iff its lowercased title
\* neither is a substring of nor contains the lowercased title of any item
\* kept before it; so the output is an order-preserving subsequence of the
\* input in which no kept title contains another, and of the titles
\* "Time vence jogo", "O time vence jogo hoje" only the first survives
C16_FirstSeenWins ==
    op = "_filter_duplicate_content" =>
        LET items == args[1]
        IN  /\ \E kept \in SUBSET (1..Len(items)) :
                  /\ \A i \in 1..Len(items) :
                        i \in kept <=>
                            \A j \in kept : j < i => ~Related(items[i], items[j])
                  /\ result = Restrict(items, kept, 1)
            /\ NoContainedTitles(result)
            /\ (/\ Len(items) = 2
                /\ TitleAsWritten(items[1]) = ExampleFirst
                /\ TitleAsWritten(items[2]) = ExampleSecond)
                   => result = <<items[1]>>

\* the specification's example was filtered: of the two titles the first
\* one is kept
C16_Witness ==
    /\ op = "_filter_duplicate_content"
    /\ Len(args[1]) = 2
    /\ TitleAsWritten(args[1][1]) = ExampleFirst
    /\ TitleAsWritten(args[1][2]) = ExampleSecond
    /\ Len(result) = 1
    /\ result[1] = args[1][1]

\* C19: every batch of gather_source_data has passed the duplicate filter
\* before ranking and selection: neither among the articles it ranks nor
\* among those it returns are two whose lowercased titles contain one another
C19_FilteredBeforeRanking ==
    op = "gather_source_data" =>
        /\ NoContainedTitles(scored_articles(args[1], args[2]))
        /\ NoContainedTitles(result)

\* an article with the secondary score the scoring loop attaches
WithScore(article) ==
    [n \in DOMAIN article \cup {"score"} |->
        IF n = "score" THEN _score_content(article) ELSE article[n]]

\* C20: gather_source_data returns the scraped items whose secondary score
\* is at least MIN_CONTENT_SCORE, in non-increasing order of that score,
\* truncated to the configured maximum count (some count of at least one):
\* as many items as qualify, up to the count, and no unselected qualifying
\* item scores strictly higher than a selected one
C20_TopScoredSelection ==
    op = "gather_source_data" =>
        LET all_articles == args[1] \o args[2]
            qualifying == {k \in 1..Len(all_articles) :
                             _score_content(all_articles[k]) >= settings.MIN_CONTENT_SCORE}
        IN  \E max_count \in 1..(Len(all_articles) + 1) :
                /\ Len(result) = IF max_count < Cardinality(qualifying)
                                 THEN max_count ELSE Cardinality(qualifying)
                /\ \A i, j \in 1..Len(result) :
                      i < j => result[i].score >= result[j].score
                /\ \E selected \in [1..Len(result) -> qualifying] :
                      /\ \A i, j \in 1..Len(result) : i # j => selected[i] # selected[j]
                      /\ \A i \in 1..Len(result) :
                            result[i] = WithScore(all_articles[selected[i]])
                      /\ \A u \in qualifying :
                            (\A i \in 1..Len(result) : selected[i] # u) =>
                                \A i \in 1..Len(result) :
                                    _score_content(all_articles[u]) <= result[i].score

(***************************************************************************)
(* Properties of the daily reset.                                          *)
(***************************************************************************)
\* a step that is a can_publish_more, schedule_content or get_daily_stats
\* call (the clock's steps change now, the calls do not)
IsQuotaCall ==
    /\ now' = now
    /\ op' \in {"can_publish_more", "schedule_content", "get_daily_stats"}

\* the counters right after a reset today: all zero, or, in a
\* schedule_content call that went on to accept its item, that item counted
FreshStats ==
    LET zero == [articles |-> 0, summaries |-> 0, social |-> 0, date |-> Today]
    IN  IF op' = "schedule_content" /\ result'.scheduled
        THEN {[zero EXCEPT !.articles = 1], [zero EXCEPT !.summaries = 1],
              [zero EXCEPT !.social = 1]}
        ELSE {zero}

\* the step resets the counters: the stored date changes or a counter drops
IsResetStep ==
    \/ daily_stats'.date # daily_stats.date
    \/ daily_stats'.articles < daily_stats.articles
    \/ daily_stats'.summaries < daily_stats.summaries
    \/ daily_stats'.social < daily_stats.social

\* C18: the three counters are reset to zero, and the stored date set to
\* today, at the first can_publish_more, schedule_content or get_daily_stats
\* call after the calendar date has advanced past the stored date, and so
\* once per advance; no call resets them while the calendar date equals the
\* stored date; and a reset happens only when the current date is later
\* than the stored date
C18_ResetOncePerAdvance ==
    [][/\ (IsQuotaCall /\ Today > daily_stats.date) =>
             daily_stats' \in FreshStats
       /\ (IsQuotaCall /\ Today = daily_stats.date) => ~IsResetStep
       /\ IsResetStep => (IsQuotaCall /\ Today > daily_stats.date)]_vars

(***************************************************************************)
(* Properties of the accumulators.                                         *)
(***************************************************************************)
\* the test a record_result step has worked on, as the step leaves it
TestAfter ==
    IF args'[1] \in DOMAIN active_tests' THEN active_tests'[args'[1]]
    ELSE completed_tests'[args'[1]]

\* a step that is a record_result call on an active test
IsRecordStep == op' = "record_result" /\ args'[1] \in DOMAIN active_tests

\* C21: add_result for a variant that is not one of the test's variants
\* changes no accumulator; for a known variant it adds exactly 1 to that
\* variant's impressions before dividing and leaves the other variants as
\* they were, so afterwards every variant with impressions > 0 has
\* avg_time_spent = total_time_spent / impressions, with a divisor that is
\* not zero
C21_AddResultAccumulators ==
    [][IsRecordStep =>
          LET old == active_tests[args'[1]]
              variant == args'[2]
          IN  /\ variant \notin DOMAIN old.results => TestAfter.results = old.results
              /\ variant \in DOMAIN old.results =>
                    /\ TestAfter.results[variant].impressions
                          = old.results[variant].impressions + 1
                    /\ \A v \in DOMAIN old.results \ {variant} :
                          TestAfter.results[v] = old.results[v]
              /\ DOMAIN TestAfter.results = DOMAIN old.results
              /\ \A v \in DOMAIN TestAfter.results :
                    LET data == TestAfter.results[v]
                    IN  /\ data.avg_time_spent.den # 0
                        /\ data.impressions > 0 =>
                              /\ data.avg_time_spent.den = data.impressions
                              /\ data.avg_time_spent.num = data.total_time_spent]_vars

\* B has two results of 300 and 60 seconds, an average of 360 / 2, beside
\* A's single result
C21_Witness ==
    /\ op = "record_result"
    /\ args = <<"t1", "B">>
    /\ "t1" \in DOMAIN active_tests
    /\ active_tests["t1"].results["B"].impressions = 2
    /\ active_tests["t1"].results["B"].total_time_spent = 360
    /\ active_tests["t1"].results["B"].avg_time_spent = [num |-> 360, den |-> 2]
    /\ active_tests["t1"].results["A"].impressions = 1

(***************************************************************************)
(* schedule_content called by two workers at once.  The code takes no      *)
(* lock, so a worker can be suspended between two statements: a call is    *)
(* the three steps below, and the steps of the two workers interleave.     *)
(***************************************************************************)
\* the counter can_publish_more compares with the cap of a publish type
daily_count(stats, publish_type) ==
    IF publish_type = "full_article" THEN stats.articles
    ELSE IF publish_type = "summary" THEN stats.summaries
    ELSE stats.social

\* the cap can_publish_more compares it with
daily_cap(publish_type) ==
    IF publish_type = "social" THEN max_daily_social ELSE max_daily_articles

\* schedule_content up to the quota check: the evaluation, the reset inside
\* can_publish_more and the comparison; a rejected call returns at once
schedule_content_check(w, content, content_type, engagement_count, is_trending, has_engagement) ==
    LET evaluation == evaluate_content(content_type, engagement_count,
                                       is_trending, has_engagement)
        publish_type == evaluation.publish_type
        stats == reset_daily_stats(daily_stats, Today)
    IN  /\ calls[w].pc = "idle"
        /\ nextId' = nextId + 1
        /\ daily_stats' = stats
        /\ IF ~can_publish_more(stats, publish_type)
           THEN /\ op' = "schedule_content"
                /\ args' = <<content_type, engagement_count, is_trending, has_engagement>>
                /\ result' = [scheduled |-> FALSE,
                              reason |-> "Daily limit reached for this content type",
                              evaluation |-> evaluation]
                /\ calls' = calls
           ELSE /\ calls' = [calls EXCEPT ![w] =
                               [pc |-> "checked",
                                content |-> content,
                                content_type |-> content_type,
                                args |-> <<content_type, engagement_count,
                                           is_trending, has_engagement>>,
                                evaluation |-> evaluation,
                                seen |-> daily_count(stats, publish_type)]]
                /\ UNCHANGED <<op, args, result>>
        /\ UNCHANGED <<max_daily_articles, max_daily_social, queue, now, acceptedToday>>
        /\ UNCHANGED <<abVars, usage, cache, tracker>>

\* schedule_content, "Create content item" and "Add to appropriate queue"
schedule_content_add(w) ==
    LET call == calls[w]
        content_item == ContentItem(call.content, call.evaluation.score,
                                    strptime(call.evaluation.publish_time),
                                    call.evaluation.publish_type, now)
    IN  /\ call.pc = "checked"
        /\ queue' = add_content(queue, content_item)
        /\ calls' = [calls EXCEPT ![w].pc = "queued"]
        /\ UNCHANGED <<max_daily_articles, max_daily_social, daily_stats, now, nextId,
                       acceptedToday, op, args, result>>
        /\ UNCHANGED <<abVars, usage, cache, tracker>>

\* mutant: the cap is compared again before the counter is incremented
schedule_content_update_rechecked(w) ==
    LET call == calls[w]
        publish_type == call.evaluation.publish_type
        accepted == can_publish_more(daily_stats, publish_type)
    IN  /\ call.pc = "queued"
        /\ daily_stats' = IF accepted THEN update_daily_stats(daily_stats, publish_type)
                          ELSE daily_stats
        /\ acceptedToday' = IF accepted
                            THEN [acceptedToday EXCEPT ![publish_type] = @ + 1]
                            ELSE acceptedToday
        /\ op' = "schedule_content"
        /\ args' = call.args
        /\ result' = IF accepted
                     THEN [scheduled |-> TRUE,
                           publish_time |-> call.evaluation.publish_time,
                           content_type |-> call.content_type,
                           publish_type |-> publish_type,
                           score |-> call.evaluation.score,
                           priority |-> call.evaluation.recommendation.priority]
                     ELSE [scheduled |-> FALSE,
                           reason |-> "Daily limit reached for this content type",
                           evaluation |-> call.evaluation]
        /\ calls' = [calls EXCEPT ![w] = Idle]
        /\ UNCHANGED <<max_daily_articles, max_daily_social, queue, now, nextId>>
        /\ UNCHANGED <<abVars, usage, cache, tracker>>

\* schedule_content, "Update daily stats" and the return
schedule_content_update(w) ==
    LET call == calls[w]
        publish_type == call.evaluation.publish_type
    IN  /\ call.pc = "queued"
        /\ daily_stats' = update_daily_stats(daily_stats, publish_type)
        /\ acceptedToday' = [acceptedToday EXCEPT ![publish_type] = @ + 1]
        /\ op' = "schedule_content"
        /\ args' = call.args
        /\ result' = [scheduled |-> TRUE,
                      publish_time |-> strftime(strptime(call.evaluation.publish_time)),
                      content_type |-> call.content_type,
                      publish_type |-> publish_type,
                      score |-> call.evaluation.score,
                      priority |-> call.evaluation.recommendation.priority]
        /\ calls' = [calls EXCEPT ![w] = Idle]
        /\ UNCHANGED <<max_daily_articles, max_daily_social, queue, now, nextId>>
        /\ UNCHANGED <<abVars, usage, cache, tracker>>

\* a worker starts a call: a FULL_ARTICLE or a SOCIAL item
CheckQuota ==
    \E w \in Workers, i \in ClockInputs :
        /\ nextId <= MaxItems
        /\ schedule_content_check(w, nextId, i[1], i[2], i[3], i[4])

AddToQueue == \E w \in Workers : schedule_content_add(w)

UpdateStats == \E w \in Workers : schedule_content_update(w)

NextRace ==
    \/ CheckQuota
    \/ AddToQueue
    \/ UpdateStats
    \/ Tick

SpecRace == Init /\ [][NextRace]_vars

\* a step in which worker w increments the counter and returns
IsUpdateStep(w) == calls[w].pc = "queued" /\ calls'[w].pc = "idle"

\* C22: the quota check and the increment of schedule_content are two
\* steps.  A call that has passed the check is accepted and adds 1 to the
\* counter whatever the counter has become since, so two calls that both
\* passed the check while one slot remained are both accepted and take the
\* counter past the cap; a call during which the counter was not moved by
\* another call (calls made one at a time) never takes it past the cap
C22_CheckThenIncrementRace ==
    [][\A w \in Workers :
          IsUpdateStep(w) =>
             LET publish_type == calls[w].evaluation.publish_type
                 count == daily_count(daily_stats, publish_type)
             IN  /\ result'.scheduled
                 /\ result'.publish_type = publish_type
                 /\ daily_count(daily_stats', publish_type) = count + 1
                 /\ calls[w].seen < daily_cap(publish_type)
                 /\ calls[w].seen = daily_cap(publish_type) - 1 /\ count = calls[w].seen + 1
                       => daily_count(daily_stats', publish_type)
                             > daily_cap(publish_type)
                 /\ count = calls[w].seen
                       => daily_count(daily_stats', publish_type)
                             <= daily_cap(publish_type)]_vars

\* one slot remained, two articles were accepted and queued, and the
\* counter is past the cap
C22_Witness ==
    /\ max_daily_articles >= 1
    /\ op = "schedule_content"
    /\ result.scheduled
    /\ result.publish_type = "full_article"
    /\ daily_stats.articles = max_daily_articles + 1
    /\ Len(queue.articles) = max_daily_articles + 1
    /\ \A w \in Workers : calls[w].pc = "idle"

(***************************************************************************)
(* record_result called by two workers at once on one ABTestManager.  A    *)
(* call is the steps below; the steps of the two workers interleave.       *)
(* Tests are created while no call is in progress, so the ABTest object a  *)
(* call holds in its local test is the one under its name in active_tests  *)
(* or, once a call has removed it from there, in completed_tests.          *)
(***************************************************************************)
\* the ABTest object the calls in progress on test_name refer to
TestObject(test_name) ==
    IF test_name \in DOMAIN active_tests THEN active_tests[test_name]
    ELSE completed_tests[test_name]

\* the other worker
Other(w) == CHOOSE v \in Workers : v # w

\* record_result up to "if stats.get("status") == "completed"": the lookup,
\* add_result on the shared object and get_stats.  A call whose stats are
\* not completed, or whose get_stats raised, returns at once.  alone
\* records that no other call has held completed stats while this one was
\* in progress
record_result_begin(w, test_name, variant, metrics) ==
    /\ calls[w].pc = "idle"
    /\ IF test_name \notin DOMAIN active_tests
       THEN /\ op' = "record_result"
            /\ args' = <<test_name, variant>>
            /\ result' = [error |-> "Test not found"]
            /\ UNCHANGED <<abVars, calls>>
       ELSE \E test \in {add_result(active_tests[test_name], variant, metrics)} :
            \E stats \in {get_stats(test)} :
                /\ active_tests' = DictWith(active_tests, test_name, test)
                /\ UNCHANGED <<completed_tests, test_history>>
                /\ IF "raised" \in DOMAIN stats
                   THEN /\ op' = "record_result"
                        /\ args' = <<test_name, variant>>
                        /\ result' = stats
                        /\ calls' = calls
                   ELSE IF stats.status = "completed"
                   THEN /\ calls' = [v \in Workers |->
                                       IF v = w
                                       THEN [pc |-> "got_stats",
                                             test_name |-> test_name,
                                             variant |-> variant,
                                             stats |-> stats,
                                             alone |-> calls[Other(w)].pc = "idle"]
                                       ELSE IF calls[v].pc = "idle" THEN calls[v]
                                       ELSE [calls[v] EXCEPT !.alone = FALSE]]
                        /\ UNCHANGED <<op, args, result>>
                   ELSE /\ op' = "record_result"
                        /\ args' = <<test_name, variant>>
                        /\ result' = [status |-> "recorded", test_stats |-> stats]
                        /\ calls' = calls
    /\ UNCHANGED <<schedVars, usage, cache, tracker>>

\* record_result, self.completed_tests[test_name] = test
record_result_store(w) ==
    /\ calls[w].pc = "got_stats"
    /\ completed_tests' = DictWith(completed_tests, calls[w].test_name,
                                   TestObject(calls[w].test_name))
    /\ calls' = [calls EXCEPT ![w].pc = "stored"]
    /\ UNCHANGED <<active_tests, test_history, op, args, result>>
    /\ UNCHANGED <<schedVars, usage, cache, tracker>>

\* mutant: a name that is no longer in active_tests is passed over
record_result_delete_if_present(w) ==
    /\ calls[w].pc = "stored"
    /\ active_tests' = DictWithout(active_tests, calls[w].test_name)
    /\ calls' = [calls EXCEPT ![w].pc = "deleted"]
    /\ UNCHANGED <<completed_tests, test_history, op, args, result>>
    /\ UNCHANGED <<schedVars, usage, cache, tracker>>

\* record_result, del self.active_tests[test_name]: a KeyError, which ends
\* the call, if the name is no longer there
record_result_delete(w) ==
    /\ calls[w].pc = "stored"
    /\ IF calls[w].test_name \in DOMAIN active_tests
       THEN /\ active_tests' = DictWithout(active_tests, calls[w].test_name)
            /\ calls' = [calls EXCEPT ![w].pc = "deleted"]
            /\ UNCHANGED <<op, args, result>>
       ELSE /\ op' = "record_result"
            /\ args' = <<calls[w].test_name, calls[w].variant>>
            /\ result' = [raised |-> "KeyError", key |-> calls[w].test_name]
            /\ calls' = [calls EXCEPT ![w] = Idle]
            /\ UNCHANGED active_tests
    /\ UNCHANGED <<completed_tests, test_history>>
    /\ UNCHANGED <<schedVars, usage, cache, tracker>>

\* record_result, self.test_history.append(stats) and the return
record_result_append(w) ==
    /\ calls[w].pc = "deleted"
    /\ test_history' = Append(test_history, calls[w].stats)
    /\ op' = "record_result"
    /\ args' = <<calls[w].test_name, calls[w].variant>>
    /\ result' = [status |-> "recorded", test_stats |-> calls[w].stats]
    /\ calls' = [calls EXCEPT ![w] = Idle]
    /\ UNCHANGED <<active_tests, completed_tests>>
    /\ UNCHANGED <<schedVars, usage, cache, tracker>>

\* a test is created while no call is in progress
CreateTestAtRest ==
    \E name \in TestNames, variants \in VariantLists :
        /\ \A w \in Workers : calls[w].pc = "idle"
        /\ name \in DOMAIN active_tests
           \/ Len(test_history) + Cardinality(DOMAIN active_tests) < MaxTests
        /\ create_test(name, variants, 2)

\* the results the two workers record: for the baseline, for another
\* variant and for a variant the test does not have
MoveVariants == {"A", "B", "Z"}

MoveMetrics ==
    { [clicks |-> 0, shares |-> 0, comments |-> 0, time_spent |-> 0],
      [clicks |-> 1, shares |-> 1, comments |-> 0, time_spent |-> 300] }

BeginRecord ==
    \E w \in Workers, test_name \in TestNames, variant \in MoveVariants,
       metrics \in MoveMetrics :
        /\ SamplesHeld(active_tests, DOMAIN active_tests)
              + SamplesHeld(completed_tests, DOMAIN completed_tests) < MaxSamples
        /\ record_result_begin(w, test_name, variant, metrics)

StoreCompleted == \E w \in Workers : record_result_store(w)

DeleteActive == \E w \in Workers : record_result_delete(w)

AppendHistory == \E w \in Workers : record_result_append(w)

NextMove ==
    \/ CreateTestAtRest
    \/ BeginRecord
    \/ StoreCompleted
    \/ DeleteActive
    \/ AppendHistory

SpecMove == InitManager /\ [][NextMove]_vars

\* a step in which worker w executes the del of record_result
IsDeleteStep(w) == calls[w].pc = "stored" /\ calls'[w].pc # "stored"

\* the calls in progress that hold completed stats of the test named
Movers(test_name) ==
    {w \in Workers : calls[w].pc # "idle" /\ calls[w].test_name = test_name}

\* C23: the move on completion is a check and then three statements.  Of
\* two record_result calls that both hold stats with status completed for
\* one test, the one that reaches the del first removes the test and
\* appends its snapshot; the del of the other finds the name gone and
\* raises KeyError before its append.  A call during which no other call
\* held completed stats always finds the name, removes it and appends once
C23_CheckThenMoveRace ==
    [][\A w \in Workers :
          /\ IsDeleteStep(w) =>
                LET test_name == calls[w].test_name
                IN  /\ test_name \in DOMAIN completed_tests
                    /\ test_name \in DOMAIN active_tests =>
                          /\ test_name \notin DOMAIN active_tests'
                          /\ calls'[w].pc = "deleted"
                          /\ test_history' = test_history
                    /\ test_name \notin DOMAIN active_tests =>
                          /\ ~calls[w].alone
                          /\ op' = "record_result"
                          /\ result' = [raised |-> "KeyError", key |-> test_name]
                          /\ calls'[w] = Idle
                          /\ test_history' = test_history
                    /\ calls[w].alone => test_name \in DOMAIN active_tests
          /\ calls[w].pc = "deleted" =>
                /\ calls[w].test_name \notin DOMAIN active_tests
                /\ \A v \in Movers(calls[w].test_name) \ {w} : calls[v].pc # "deleted"
                /\ calls'[w].pc # "deleted" =>
                      test_history' = Append(test_history, calls[w].stats)]_vars

\* both calls held completed stats of t1; one has moved the test and
\* appended its snapshot, the del of the other has raised KeyError
C23_Witness ==
    /\ op = "record_result"
    /\ result = [raised |-> "KeyError", key |-> "t1"]
    /\ "t1" \in DOMAIN completed_tests
    /\ "t1" \notin DOMAIN active_tests
    /\ Len(test_history) = 1
    /\ test_history[1].test_name = "t1"
    /\ test_history[1].status = "completed"
    /\ \A w \in Workers : calls[w].pc = "idle"

(***************************************************************************)
(* Properties of the queues and the quota together.                        *)
(***************************************************************************)
\* the queue, or the bucket of a schedule, that belongs to a publish type
BucketOf(q, publish_type) ==
    IF publish_type = "full_article" THEN q.articles
    ELSE IF publish_type = "summary" THEN q.summaries
    ELSE q.social

\* the content payloads of a bucket of a schedule
Scheduled(bucket) == {bucket[k].content : k \in 1..Len(bucket)}

\* C24: no accepted item is lost or duplicated.  The call that accepts an
\* item puts it once into the queue of its publish type and leaves the
\* other queues as they are; nothing but a get_publishing_schedule call
\* takes an item out; and that call returns, bucket by bucket, exactly the
\* items queued, each once, so every accepted item is in the matching
\* bucket of the first schedule read after it, and nothing else is
C24_NoItemLostOrDuplicated ==
    [][/\ (IsScheduleStep /\ result'.scheduled) =>
             /\ nextId \notin QueuedContents(queue)
             /\ \A t \in PublishType \ {"discard"} :
                   IF t = result'.publish_type
                   THEN /\ Contents(BucketOf(queue', t))
                              = Contents(BucketOf(queue, t)) \cup {nextId}
                        /\ Len(BucketOf(queue', t)) = Len(BucketOf(queue, t)) + 1
                   ELSE BucketOf(queue', t) = BucketOf(queue, t)
       /\ IsDrainStep =>
             /\ queue' = EmptyQueue
             /\ \A t \in PublishType \ {"discard"} :
                   /\ Scheduled(BucketOf(result', t)) = Contents(BucketOf(queue, t))
                   /\ Len(BucketOf(result', t)) = Len(BucketOf(queue, t))
                   /\ Cardinality(Scheduled(BucketOf(result', t)))
                         = Len(BucketOf(result', t))
       /\ (~IsScheduleStep /\ ~IsDrainStep) => queue' = queue
       /\ Cardinality(QueuedContents(queue))
             = Len(queue.articles) + Len(queue.summaries) + Len(queue.social)
       /\ \A c \in QueuedContents(queue) : c < nextId]_vars

\* a schedule was read that holds the three items accepted before it: two
\* articles and a social post
C24_Witness ==
    /\ op = "get_publishing_schedule"
    /\ Scheduled(result.articles) \cup Scheduled(result.social) = {1, 2, 3}
    /\ Len(result.articles) = 2
    /\ Len(result.social) = 1
    /\ result.summaries = <<>>
    /\ queue = EmptyQueue
    /\ daily_stats.articles = 2
    /\ daily_stats.social = 1

\* the stored date is the date stats were last counted on, and the counter
\* of a publish type has reached its cap
Capped(stats, today, publish_type) ==
    /\ stats.date = today
    /\ daily_count(stats, publish_type) >= daily_cap(publish_type)

\* the items a heap holds
Items(heap) == {heap[k] : k \in 1..Len(heap)}

\* C25: draining the queues does not give quota back.
\* get_publishing_schedule leaves daily_stats as it is; a publish type
\* whose counter has reached the cap stays at the cap through every call
\* made on that calendar day, a read of the schedule included, and every
\* schedule_content call for it is turned away; and a step that resets the
\* counters for a new date takes no item out of the queues
C25_DrainKeepsQuota ==
    [][/\ IsDrainStep => daily_stats' = daily_stats
       /\ \A t \in PublishType \ {"discard"} :
             (Capped(daily_stats, Today, t) /\ Today' = Today)
                => Capped(daily_stats', Today', t)
       /\ (IsScheduleStep /\ Capped(daily_stats, Today, ResultType')) =>
             /\ ~result'.scheduled
             /\ queue' = queue
       /\ daily_stats'.date # daily_stats.date =>
             /\ \A t \in PublishType \ {"discard"} :
                   Items(BucketOf(queue, t)) \subseteq Items(BucketOf(queue', t))
             /\ ~(IsScheduleStep /\ result'.scheduled) => queue' = queue]_vars

\* the article cap was reached, the schedule was read, and an article
\* offered on the same day afterwards was turned away
C25_Witness ==
    /\ op = "schedule_content"
    /\ ~result.scheduled
    /\ result.evaluation.publish_type = "full_article"
    /\ max_daily_articles >= 1
    /\ daily_stats.articles = max_daily_articles
    /\ daily_stats.date = Today
    /\ queue = EmptyQueue
    /\ acceptedToday["full_article"] = max_daily_articles

(***************************************************************************)
(* Properties of the manager's dictionaries.                               *)
(***************************************************************************)
\* the number of snapshots test_history holds of tests of that name
RECURSIVE SnapshotsOf(_, _)
SnapshotsOf(name, k) ==
    IF k > Len(test_history) THEN 0
    ELSE (IF test_history[k].test_name = name THEN 1 ELSE 0) + SnapshotsOf(name, k + 1)

\* C26: no test name is in both active_tests and completed_tests, and
\* test_history holds at most one snapshot per test name
C26_NameIdentifiesOneTest ==
    /\ DOMAIN active_tests \cap DOMAIN completed_tests = {}
    /\ \A name \in TestNames : SnapshotsOf(name, 1) <= 1

\* C27: completion is never missed: every test in active_tests has fewer
\* impressions than min_samples or fewer than two variants with
\* impressions, and every test in completed_tests has at least min_samples
\* impressions and at least two variants with impressions
C27_CompletionNeverMissed ==
    /\ \A n \in DOMAIN active_tests :
          \/ ImpressionsFrom(active_tests[n], 1) < active_tests[n].min_samples
          \/ Cardinality(WithImpressions(active_tests[n])) < 2
    /\ \A n \in DOMAIN completed_tests :
          /\ ImpressionsFrom(completed_tests[n], 1) >= completed_tests[n].min_samples
          /\ Cardinality(WithImpressions(completed_tests[n])) >= 2

\* C28: a record_result call on an active test for a variant the test does
\* not have changes no accumulator of the test, does not move the test to
\* completed_tests and appends nothing to test_history
C28_UnknownVariantChangesNothing ==
    [][(IsRecordStep /\ args'[2] \notin DOMAIN active_tests[args'[1]].results) =>
          /\ active_tests' = active_tests
          /\ completed_tests' = completed_tests
          /\ test_history' = test_history
          /\ "test_stats" \in DOMAIN result' =>
                result'.test_stats.status # "completed"]_vars

\* a result for Z was recorded on a test that is one impression short of
\* min_samples and has two variants with impressions
C28_Witness ==
    /\ op = "record_result"
    /\ args = <<"t1", "Z">>
    /\ "t1" \in DOMAIN active_tests
    /\ "test_stats" \in DOMAIN result
    /\ result.test_stats.status = "collecting_data"
    /\ result.test_stats.total_samples = 2
    /\ active_tests["t1"].min_samples = 3
    /\ Cardinality(WithImpressions(active_tests["t1"])) = 2

\* C29: _score_content returns at least 5.0 for every item (the base 1.0,
\* the least type bonus 1.0 and the least source bonus 3.0, every other
\* bonus being 0 or more), so with MIN_CONTENT_SCORE at its default of 5.0
\* the minimum-score gate of gather_source_data keeps every article
C29_ScoreAtLeastMinimum ==
    /\ op = "_score_content" =>
          /\ result >= 50
          /\ result >= settings.MIN_CONTENT_SCORE
    /\ op = "gather_source_data" =>
          /\ \A k \in 1..Len(args[1] \o args[2]) :
                _score_content((args[1] \o args[2])[k]) >= settings.MIN_CONTENT_SCORE
          /\ Len(scored_articles(args[1], args[2])) = Len(args[1]) + Len(args[2])

\* an item that earns no bonus beyond the least ones, all its fields
\* present, was scored: exactly 5.0
C29_Witness ==
    /\ op = "_score_content"
    /\ result = 50
    /\ result = settings.MIN_CONTENT_SCORE
    /\ DOMAIN args[1] = {"content_type", "source", "engagement_count", "is_trending",
                         "content", "scraped_at"}
    /\ args[1].content_type = "opinion"
    /\ args[1].engagement_count = 10
    /\ args[1].content = 500
    /\ args[1].scraped_at = [valid |-> TRUE, age |-> 180]

(***************************************************************************)
(* services/ai_usage_tracker.py and services/ai_writer.py                  *)
(*                                                                         *)
(* usage and cache are the two JSON files, read and written whole by every *)
(* method; reads and writes are taken to succeed.  A date is the number of *)
(* its calendar day, a month the number of its calendar month.  Costs are  *)
(* kept in millionths of a dollar: (tokens_used / 1000) * 0.003 is         *)
(* 3 * tokens_used of them.  An article's content is kept as the length of *)
(* its stripped text.                                                      *)
(***************************************************************************)
\* generate_article calls in one behaviour of SpecWriter
MaxCalls == 4
\* calendar days per calendar month
DaysPerMonth == 1

\* datetime.now().strftime("%Y-%m-%d") at clock reading t
date_of(t) == t \div TicksPerDay

\* datetime.now().strftime("%Y-%m") at clock reading t
month_of(t) == date_of(t) \div DaysPerMonth

\* mutant: the limit itself is still allowed
can_generate_article_past_limit(t) ==
    LET today == date_of(t)
        count_today == Get(usage.daily_articles, today, 0)
    IN  IF count_today > tracker.max_daily_articles THEN FALSE ELSE TRUE

\* AIUsageTracker.can_generate_article, called at clock reading t
can_generate_article(t) ==
    LET today == date_of(t)
        count_today == Get(usage.daily_articles, today, 0)
    IN  IF count_today >= tracker.max_daily_articles THEN FALSE ELSE TRUE

\* AIUsageTracker.check_monthly_cost_limit, called at clock reading t:
\* monthly_cost >= max_monthly_cost * 0.8
check_monthly_cost_limit(t) ==
    LET current_month == month_of(t)
        monthly_cost == Get(usage.monthly_costs, current_month, 0)
    IN  IF 10 * monthly_cost >= 8 * tracker.max_monthly_cost THEN FALSE ELSE TRUE

\* AIWriter._calculate_content_hash: the md5 digest of the three strings
\* joined with "|", kept as the joined string
_calculate_content_hash(title, source_text, source_type) ==
    <<title, "|", source_text, "|", source_type>>

\* AIUsageTracker.get_cached_article
get_cached_article(content_hash) == Get(cache, content_hash, None)

\* AIUsageTracker.cache_article: the cache file after the call
cache_article(content_hash, article_data) == DictWith(cache, content_hash, article_data)

\* the days of history track_usage keeps
KeepDays == 90

\* AIUsageTracker.track_usage, called at clock reading t: the usage file
\* after the call
track_usage(tokens_used, cost, t) ==
    LET today == date_of(t)
        current_month == month_of(t)
        daily_articles == DictWith(usage.daily_articles, today,
                                   Get(usage.daily_articles, today, 0) + 1)
        monthly_costs == DictWith(usage.monthly_costs, current_month,
                                  Get(usage.monthly_costs, current_month, 0) + cost)
        cutoff == date_of(t) - KeepDays
    IN  [daily_articles |-> [k \in {d \in DOMAIN daily_articles : d >= cutoff} |->
                                daily_articles[k]],
         monthly_costs |-> monthly_costs,
         total_tokens |-> usage.total_tokens + tokens_used,
         total_cost |-> usage.total_cost + cost]

\* AIWriter.generate_article.  response is what the chat completion call
\* does: it raises, or it answers with its token count and its content.
\* The answer arrives elapsed clock readings after the checks were made.
\* result records what the call returned and whether it called the model.
\* The summary, category and author calls fall back to defaults when they
\* fail and are left out of the article kept here
generate_article(title, source_text, source_type, response, elapsed) ==
    LET content_hash == _calculate_content_hash(title, source_text, source_type)
        cached_article == get_cached_article(content_hash)
        answered == now + elapsed
    IN  /\ op' = "generate_article"
        /\ args' = <<title, source_text, source_type>>
        /\ nextId' = nextId + 1
        /\ IF ~can_generate_article(now)
           THEN /\ result' = [returned |-> None, model_called |-> FALSE]
                /\ UNCHANGED <<usage, cache, now, acceptedToday>>
           ELSE IF ~check_monthly_cost_limit(now)
           THEN /\ result' = [returned |-> None, model_called |-> FALSE]
                /\ UNCHANGED <<usage, cache, now, acceptedToday>>
           ELSE IF content_hash \in DOMAIN cache
           THEN /\ result' = [returned |-> "cached_article", article |-> cached_article,
                              model_called |-> FALSE]
                /\ UNCHANGED <<usage, cache, now, acceptedToday>>
           ELSE /\ now' = answered
                /\ acceptedToday' = IF date_of(answered) # Today
                                    THEN NoneAccepted ELSE acceptedToday
                /\ IF response.raised
                   THEN /\ result' = [returned |-> None, model_called |-> TRUE]
                        /\ UNCHANGED <<usage, cache>>
                   ELSE LET tokens_used == response.total_tokens
                            cost == 3 * tokens_used
                            article_data == [title |-> title, content |-> response.content]
                        IN  /\ usage' = track_usage(tokens_used, cost, answered)
                            /\ IF response.content < 100
                               THEN /\ result' = [returned |-> None, model_called |-> TRUE]
                                    /\ cache' = cache
                               ELSE /\ result' = [returned |-> "article_data",
                                                  article |-> article_data,
                                                  model_called |-> TRUE]
                                    /\ cache' = cache_article(content_hash, article_data)
        /\ UNCHANGED <<max_daily_articles, max_daily_social, daily_stats, queue>>
        /\ UNCHANGED <<abVars, calls, tracker>>

\* AIWriter.__init__ on a first run: the limits it is constructed with, and
\* the data files _ensure_data_files writes
InitWriter ==
    /\ max_daily_articles = 10
    /\ max_daily_social = 5
    /\ now = 0
    /\ daily_stats = [articles |-> 0, summaries |-> 0, social |-> 0, date |-> 0]
    /\ queue = EmptyQueue
    /\ nextId = 1
    /\ acceptedToday = NoneAccepted
    /\ op = "init"
    /\ args = <<>>
    /\ result = <<>>
    /\ InitAB
    /\ calls = [w \in Workers |-> Idle]
    /\ usage = EmptyUsage
    /\ cache = EmptyDict
    /\ tracker \in [max_daily_articles : 0..MaxCap,
                    max_monthly_cost : {5000, 100000000}]

\* what the chat completion call can do
Responses ==
    {[raised |-> TRUE]}
    \cup {[raised |-> FALSE, total_tokens |-> t, content |-> c] :
             t \in {1000, 2000}, c \in {0, 99, 100}}

\* the calls are made one after the other
GenerateArticle ==
    /\ nextId <= MaxCalls
    /\ \E title \in {"t1", "t2"}, response \in Responses, elapsed \in 0..1 :
          /\ now + elapsed <= MaxNow
          /\ generate_article(title, "s", "news", response, elapsed)

NextWriter ==
    \/ GenerateArticle
    \/ Tick

SpecWriter == InitWriter /\ [][NextWriter]_vars

\* a step that is a generate_article call
IsGenerateStep == nextId' = nextId + 1

\* the generations tracked for calendar date d
Tracked(u, d) == Get(u.daily_articles, d, 0)

====
